---- MODULE Spec2Model ----
(***************************************************************************)
(* go-mycli: the SQL context parser and completion engine of pkg/cli.      *)
(*                                                                         *)
(* Text is a sequence of characters (one-character strings); a token is a  *)
(* sequence of characters too, so that tokenizing, upper-casing, trimming  *)
(* and the regular expressions are computed character by character as the  *)
(* Go code computes them.  Str turns a character sequence into a TLA+      *)
(* string where the code compares against a string literal.                *)
(***************************************************************************)
EXTENDS Integers, Sequences, FiniteSets, TLC

VARIABLES
    input,       \* the editor line handed to ParseSQLContext
    cursorPos,   \* the cursor offset handed to ParseSQLContext
    tokens,      \* the local variable tokens of the last ParseSQLContext call
    result,      \* the *SQLParseResult returned by the last call
    typed,       \* number of parser calls made so far (bounds the session)
    calls,       \* observer: the calls made so far, with line, cursor and result
    word,        \* findMatches: the partial word
    candidates,  \* findMatches: the candidate suggestions
    matches,     \* findMatches: the ranked result
    ranked,      \* whether findMatches has run on (word, candidates)
    aliasName,   \* ResolveAlias: the name looked up
    resolved,    \* ResolveAlias: the table name returned (empty before the call)
    rerun,       \* findMatches: the result of a second call on matches, if made
    built,       \* observer: the results of the buildContextAwareSuggestions calls
    now,         \* the clock, in seconds
    cacheTime,   \* p.cacheTime, in seconds
    tables,      \* p.tables, the cached table list
    refreshes,   \* observer: the times at which refreshCache queried the database
    request,     \* observer: the last completion request, if any
    sqlStr,      \* the statement MySQL rejected
    errText,     \* err.Error() of the rejection
    fixSuggestion,  \* the results of SuggestFixedSQL, at most one
    configFiles, \* the MySQL config files in reading order, the --config file last
    loginPath,   \* the --login-path flag
    args,        \* the connection flags given on the command line
    config,      \* the results of ReadMySQLConfig, at most one
    mergedConfig, \* the results of MergeConfig, at most one
    rawValue,    \* StripMatchingQuotes: the string handed in
    stripped,    \* StripMatchingQuotes: the outcomes, at most one
    buffer,      \* p.buffer, the statement text not executed yet
    executed,    \* observer: the ExecuteSQL calls that reached the server
    fed,         \* observer: the lines handed to Executor so far
    database,    \* p.database
    completions, \* the results of Completer, at most one
    reqID,       \* c.reqID of the MCPStdioClient
    pc,          \* where each HTTP request is in CallTool
    callID,      \* the local reqID of each CallTool
    childStdin,  \* the pipe to the child: requests written, not yet read
    childStdout, \* the pipe from the child: replies written, not yet read
    replies      \* the id of the reply each CallTool returned

vars == <<input, cursorPos, tokens, result, typed, calls,
          word, candidates, matches, ranked, aliasName, resolved, rerun, built,
          now, cacheTime, tables, refreshes, request, sqlStr, errText, fixSuggestion,
          configFiles, loginPath, args, config, mergedConfig, rawValue, stripped,
          buffer, executed, fed, database, completions,
          reqID, pc, callID, childStdin, childStdout, replies>>

\* the state of the start-up: config files, flags, and quoted values
startup == <<configFiles, loginPath, args, config, mergedConfig, rawValue, stripped>>

StartupIdle ==
    /\ configFiles = <<>> /\ loginPath = "" /\ args = <<>>
    /\ config = <<>> /\ mergedConfig = <<>>
    /\ rawValue = <<>> /\ stripped = <<>>

\* the state of the statement buffer and the connection
shell == <<buffer, executed, fed, database>>

ShellIdle == buffer = <<>> /\ executed = <<>> /\ fed = <<>> /\ database = <<>>

MaxCallers == 3

\* the HTTP requests that reach handleMCPRequest
Callers == 1..MaxCallers

\* c.reqID after initialize
FirstRequestID == 2

\* the state of the HTTP bridge to the MCP child process
bridge == <<reqID, pc, callID, childStdin, childStdout, replies>>

BridgeIdle ==
    /\ reqID = FirstRequestID
    /\ pc = [c \in Callers |-> "arrived"]
    /\ callID = [c \in Callers |-> 0]
    /\ childStdin = <<>> /\ childStdout = <<>>
    /\ replies = [c \in Callers |-> 0]

\* the state outside completion and correction
beyond == <<startup, shell, bridge, completions>>

BeyondIdle == StartupIdle /\ ShellIdle /\ BridgeIdle /\ completions = <<>>

\* the state outside the parser, the ranking and the alias lookup
others == <<rerun, built, now, cacheTime, tables, refreshes, request,
            sqlStr, errText, fixSuggestion, beyond>>

\* cacheTime: time.Time{}, as the executor is constructed
ZeroTime == -1000

OthersIdle ==
    /\ rerun = <<>> /\ built = <<>>
    /\ now = 0 /\ cacheTime = ZeroTime /\ tables = <<>> /\ refreshes = <<>>
    /\ request = <<>>
    /\ sqlStr = <<>> /\ errText = <<>> /\ fixSuggestion = <<>>
    /\ BeyondIdle

(***************************************************************************)
(* Characters and strings                                                  *)
(***************************************************************************)
LowerLetters == <<"a","b","c","d","e","f","g","h","i","j","k","l","m",
                  "n","o","p","q","r","s","t","u","v","w","x","y","z">>

UpperLetters == <<"A","B","C","D","E","F","G","H","I","J","K","L","M",
                  "N","O","P","Q","R","S","T","U","V","W","X","Y","Z">>

\* the characters the code names by escape sequences
Backslash == "\\"

DQuote == "\""

SQuote == "'"

\* the backquote character, which a TLA+ string literal cannot hold
Backtick == "BACKTICK"

\* rune(0), the zero value of stringChar: equal to no character of the text
NUL == ""

Digits == {"0","1","2","3","4","5","6","7","8","9"}

LowerSet == {LowerLetters[i] : i \in DOMAIN LowerLetters}

UpperSet == {UpperLetters[i] : i \in DOMAIN UpperLetters}

\* unicode.ToUpper / unicode.ToLower on the ASCII letters
UpperMap == [c \in LowerSet |->
                UpperLetters[CHOOSE i \in DOMAIN LowerLetters : LowerLetters[i] = c]]

LowerMap == [c \in UpperSet |->
                LowerLetters[CHOOSE i \in DOMAIN UpperLetters : UpperLetters[i] = c]]

UpperCh(c) == IF c \in LowerSet THEN UpperMap[c] ELSE c

LowerCh(c) == IF c \in UpperSet THEN LowerMap[c] ELSE c

\* strings.ToUpper, strings.ToLower
ToUpper(s) == [i \in DOMAIN s |-> UpperCh(s[i])]

ToLower(s) == [i \in DOMAIN s |-> LowerCh(s[i])]

\* the comparison, had it been exact
EqualFold_Exact(a, b) == a = b

\* strings.EqualFold
EqualFold(a, b) == ToUpper(a) = ToUpper(b)

\* a character sequence as a string, to compare with the code's literals
RECURSIVE Str(_)
Str(s) == IF s = <<>> THEN "" ELSE Head(s) \o Str(Tail(s))

\* strings.HasPrefix(s, p)
HasPrefix(s, p) == Len(p) <= Len(s) /\ SubSeq(s, 1, Len(p)) = p

\* strings.HasSuffix(s, p)
HasSuffix(s, p) == Len(p) <= Len(s) /\ SubSeq(s, Len(s) - Len(p) + 1, Len(s)) = p

\* strings.Contains(s, sub)
Contains(s, sub) ==
    \E k \in 0..(Len(s) - Len(sub)) : SubSeq(s, k + 1, k + Len(sub)) = sub

\* unicode.IsSpace on the characters of the session
IsSpaceChar(c) == c \in {" ", "\t", "\n", "\r"}

\* strings.TrimSpace
TrimSpace(s) ==
    LET keep == {i \in DOMAIN s : ~IsSpaceChar(s[i])}
    IN  IF keep = {} THEN <<>>
        ELSE SubSeq(s, CHOOSE i \in keep : \A j \in keep : i <= j,
                       CHOOSE i \in keep : \A j \in keep : j <= i)

\* strings.Trim(s, backtick)
RECURSIVE TrimLeftBacktick(_)
TrimLeftBacktick(s) ==
    IF s /= <<>> /\ Head(s) = Backtick THEN TrimLeftBacktick(Tail(s)) ELSE s

RECURSIVE TrimRightBacktick(_)
TrimRightBacktick(s) ==
    IF s /= <<>> /\ s[Len(s)] = Backtick
    THEN TrimRightBacktick(SubSeq(s, 1, Len(s) - 1)) ELSE s

TrimBackticks(s) == TrimRightBacktick(TrimLeftBacktick(s))

Range(s) == {s[i] : i \in DOMAIN s}

(***************************************************************************)
(* tokenizeSQL                                                             *)
(***************************************************************************)
\* the separators of the whitespace case
TokenSpaces == {" ", "\t", "\n", "\r"}

\* the characters of the punctuation case
TokenPunct == {",", "(", ")", ";", "."}

\* the characters of the operator case
TokenOperators == {"=", ">", "<", "!"}

\* the scanner's variables before the first character; rune(0) is NUL
TokInit == [i |-> 1, tokens |-> <<>>, current |-> <<>>, inString |-> FALSE,
            stringChar |-> NUL, inBacktick |-> FALSE]

\* if current.Len() > 0 { tokens = append(tokens, current.String()); current.Reset() }
Flush(s) == IF Len(s.current) > 0
            THEN [s EXCEPT !.tokens = Append(@, s.current), !.current = <<>>]
            ELSE s

\* the quote case of the switch
TokQuote(sql, i, s) ==
    LET ch == sql[i]
        s1 == IF ~s.inString
              THEN [s EXCEPT !.inString = TRUE, !.stringChar = ch]
              ELSE IF ch = s.stringChar /\ i > 1 /\ sql[i - 1] /= Backslash
                   THEN [s EXCEPT !.inString = FALSE]
                   ELSE s
    IN [s1 EXCEPT !.current = Append(@, ch)]

\* the operator case: the two-character operators are appended as one token,
\* and the continue statement goes on with the NEXT character of the range loop, which is
\* the operator's second character
TokOperator(sql, i, s) ==
    LET ch == sql[i]
        f  == Flush(s)
    IN IF i + 1 <= Len(sql) /\ sql[i + 1] = "="
       THEN [f EXCEPT !.tokens = Append(@, <<ch, sql[i + 1]>>)]
       ELSE IF i + 1 <= Len(sql) /\ ch = "<" /\ sql[i + 1] = ">"
       THEN [f EXCEPT !.tokens = Append(@, <<"<", ">">>)]
       ELSE [f EXCEPT !.tokens = Append(@, <<ch>>)]

\* the body of the loop for i, ch := range sql, at position i
TokCase(sql, i, s) ==
    LET ch == sql[i]
        plain == ~s.inString /\ ~s.inBacktick
    IN IF ch = SQuote \/ ch = DQuote THEN TokQuote(sql, i, s)
       ELSE IF ch = Backtick
       THEN [s EXCEPT !.inBacktick = ~s.inBacktick, !.current = Append(@, ch)]
       ELSE IF plain /\ ch \in TokenSpaces THEN Flush(s)
       ELSE IF plain /\ ch \in TokenPunct
       THEN [Flush(s) EXCEPT !.tokens = Append(@, <<ch>>)]
       ELSE IF plain /\ ch \in TokenOperators THEN TokOperator(sql, i, s)
       ELSE [s EXCEPT !.current = Append(@, ch)]

\* one iteration of the loop: the body, then the next position
TokChar(sql, s) == [TokCase(sql, s.i, s) EXCEPT !.i = s.i + 1]

RECURSIVE TokLoop(_, _)
TokLoop(sql, s) ==
    IF s.i > Len(sql) THEN s ELSE TokLoop(sql, TokChar(sql, s))

tokenizeSQL(sql) == Flush(TokLoop(sql, TokInit)).tokens

(***************************************************************************)
(* countParenthesesDepth                                                   *)
(***************************************************************************)
DepthInit == [i |-> 1, depth |-> 0, inString |-> FALSE, stringChar |-> NUL]

\* the body of the loop for i, ch := range text, at position i
DepthCase(text, i, s) ==
    LET ch == text[i]
    IN IF ch = SQuote \/ ch = DQuote
       THEN IF ~s.inString
            THEN [s EXCEPT !.inString = TRUE, !.stringChar = ch]
            ELSE IF ch = s.stringChar /\ (i = 1 \/ text[i - 1] /= Backslash)
                 THEN [s EXCEPT !.inString = FALSE]
                 ELSE s
       ELSE IF ~s.inString /\ ch = "(" THEN [s EXCEPT !.depth = @ + 1]
       ELSE IF ~s.inString /\ ch = ")" THEN [s EXCEPT !.depth = @ - 1]
       ELSE s

DepthChar(text, s) == [DepthCase(text, s.i, s) EXCEPT !.i = s.i + 1]

RECURSIVE DepthLoop(_, _)
DepthLoop(text, s) ==
    IF s.i > Len(text) THEN s ELSE DepthLoop(text, DepthChar(text, s))

countParenthesesDepth(text) == DepthLoop(text, DepthInit).depth

(***************************************************************************)
(* SQLContext, SQLParseResult and the catalogs                             *)
(***************************************************************************)
ContextUnknown == "ContextUnknown"

ContextKeyword == "ContextKeyword"

ContextTable == "ContextTable"

ContextColumn == "ContextColumn"

ContextDatabase == "ContextDatabase"

ContextFunction == "ContextFunction"

ContextAlias == "ContextAlias"

ContextOperator == "ContextOperator"

ContextValue == "ContextValue"

ContextJoinOn == "ContextJoinOn"

ContextShowItem == "ContextShowItem"

ContextTableDot == "ContextTableDot"

\* result := &SQLParseResult{Context: ContextKeyword, Tables: {}, Aliases: {}}
\* the result, had the literal left Context at the zero value of SQLContext
NewResult_ZeroContext ==
    [Context |-> ContextUnknown, CurrentTable |-> <<>>, Tables |-> <<>>,
     Aliases |-> <<>>, LastKeyword |-> <<>>, PartialWord |-> <<>>,
     InParentheses |-> 0, HasFrom |-> FALSE, HasWhere |-> FALSE,
     HasOrderBy |-> FALSE, HasGroupBy |-> FALSE, HasHaving |-> FALSE,
     IsSubquery |-> FALSE, AfterComma |-> FALSE, ExpectingAlias |-> FALSE]

NewResult ==
    [Context |-> ContextKeyword, CurrentTable |-> <<>>, Tables |-> <<>>,
     Aliases |-> <<>>, LastKeyword |-> <<>>, PartialWord |-> <<>>,
     InParentheses |-> 0, HasFrom |-> FALSE, HasWhere |-> FALSE,
     HasOrderBy |-> FALSE, HasGroupBy |-> FALSE, HasHaving |-> FALSE,
     IsSubquery |-> FALSE, AfterComma |-> FALSE, ExpectingAlias |-> FALSE]

\* the map of isKeyword
keywords ==
    {"SELECT", "FROM", "WHERE", "AND", "OR", "JOIN", "INNER", "LEFT",
     "RIGHT", "OUTER", "CROSS", "NATURAL", "ON", "AS", "ORDER", "BY",
     "GROUP", "HAVING", "LIMIT", "OFFSET", "INSERT", "INTO", "VALUES",
     "UPDATE", "SET", "DELETE", "CREATE", "ALTER", "DROP", "TABLE",
     "INDEX", "VIEW", "DATABASE", "SCHEMA", "USE", "SHOW", "DESCRIBE",
     "DESC", "EXPLAIN", "ANALYZE", "UNION", "ALL", "DISTINCT", "BETWEEN",
     "LIKE", "IN", "IS", "NULL", "NOT", "TRUE", "FALSE", "CASE", "WHEN",
     "THEN", "ELSE", "END", "EXISTS", "ANY", "SOME", "ASC", "WITH",
     "RECURSIVE", "OVER", "PARTITION", "WINDOW", "ROWS", "RANGE",
     "PRECEDING", "FOLLOWING", "CURRENT", "FIRST", "LAST", "NULLS"}

\* the map of isClauseKeyword
clauses ==
    {"SELECT", "FROM", "WHERE", "JOIN", "INNER", "LEFT", "RIGHT", "OUTER",
     "CROSS", "NATURAL", "ON", "ORDER", "GROUP", "HAVING", "LIMIT",
     "UNION", "SET", "VALUES"}

\* the map of isFunction
functions ==
    {"COUNT", "SUM", "AVG", "MIN", "MAX", "GROUP_CONCAT", "BIT_AND",
     "BIT_OR", "BIT_XOR", "STD", "STDDEV", "STDDEV_POP", "STDDEV_SAMP",
     "VAR_POP", "VAR_SAMP", "VARIANCE", "CONCAT", "CONCAT_WS", "SUBSTRING",
     "SUBSTR", "LEFT", "RIGHT", "LENGTH", "CHAR_LENGTH", "UPPER", "LOWER",
     "TRIM", "LTRIM", "RTRIM", "REPLACE", "REVERSE", "REPEAT", "SPACE",
     "LPAD", "RPAD", "INSTR", "LOCATE", "POSITION", "ASCII", "CHAR", "ORD",
     "HEX", "UNHEX", "FORMAT", "INSERT", "FIELD", "FIND_IN_SET",
     "MAKE_SET", "EXPORT_SET", "SOUNDEX", "QUOTE", "ABS", "CEIL",
     "CEILING", "FLOOR", "ROUND", "TRUNCATE", "MOD", "POW", "POWER",
     "SQRT", "EXP", "LOG", "LOG10", "LOG2", "LN", "SIN", "COS", "TAN",
     "ASIN", "ACOS", "ATAN", "COT", "RAND", "SIGN", "PI", "RADIANS",
     "DEGREES", "NOW", "CURDATE", "CURRENT_DATE", "CURTIME",
     "CURRENT_TIME", "CURRENT_TIMESTAMP", "LOCALTIME", "LOCALTIMESTAMP",
     "SYSDATE", "UTC_DATE", "UTC_TIME", "UTC_TIMESTAMP", "DATE", "TIME",
     "DATETIME", "TIMESTAMP", "YEAR", "MONTH", "DAY", "DAYOFMONTH",
     "DAYOFWEEK", "DAYOFYEAR", "WEEKDAY", "WEEK", "WEEKOFYEAR", "YEARWEEK",
     "HOUR", "MINUTE", "SECOND", "MICROSECOND", "QUARTER", "DATE_ADD",
     "DATE_SUB", "ADDDATE", "SUBDATE", "ADDTIME", "SUBTIME", "DATEDIFF",
     "TIMEDIFF", "TIMESTAMPDIFF", "TIMESTAMPADD", "DATE_FORMAT",
     "TIME_FORMAT", "STR_TO_DATE", "GET_FORMAT", "FROM_UNIXTIME",
     "UNIX_TIMESTAMP", "FROM_DAYS", "TO_DAYS", "TO_SECONDS", "SEC_TO_TIME",
     "TIME_TO_SEC", "MAKEDATE", "MAKETIME", "EXTRACT", "LAST_DAY",
     "PERIOD_ADD", "PERIOD_DIFF", "CONVERT_TZ", "IF", "IFNULL", "NULLIF",
     "COALESCE", "GREATEST", "LEAST", "ISNULL", "JSON_OBJECT",
     "JSON_ARRAY", "JSON_EXTRACT", "JSON_UNQUOTE", "JSON_SET",
     "JSON_INSERT", "JSON_REPLACE", "JSON_REMOVE", "JSON_CONTAINS",
     "JSON_CONTAINS_PATH", "JSON_TYPE", "JSON_KEYS", "JSON_LENGTH",
     "JSON_DEPTH", "JSON_VALID", "JSON_SEARCH", "JSON_MERGE",
     "JSON_MERGE_PATCH", "JSON_MERGE_PRESERVE", "JSON_ARRAYAGG",
     "JSON_OBJECTAGG", "JSON_PRETTY", "JSON_QUOTE", "JSON_STORAGE_SIZE",
     "JSON_STORAGE_FREE", "JSON_TABLE", "ROW_NUMBER", "RANK", "DENSE_RANK",
     "NTILE", "LEAD", "LAG", "FIRST_VALUE", "LAST_VALUE", "NTH_VALUE",
     "CUME_DIST", "PERCENT_RANK", "CAST", "CONVERT", "BINARY", "CHARSET",
     "COLLATION", "CONNECTION_ID", "CURRENT_USER", "DATABASE",
     "FOUND_ROWS", "LAST_INSERT_ID", "ROW_COUNT", "SCHEMA", "SESSION_USER",
     "SYSTEM_USER", "USER", "VERSION", "BENCHMARK", "COERCIBILITY", "UUID",
     "UUID_SHORT", "UUID_TO_BIN", "BIN_TO_UUID", "INET_ATON", "INET_NTOA",
     "INET6_ATON", "INET6_NTOA", "IS_IPV4", "IS_IPV6", "IS_IPV4_COMPAT",
     "IS_IPV4_MAPPED", "MD5", "SHA", "SHA1", "SHA2", "AES_ENCRYPT",
     "AES_DECRYPT", "COMPRESS", "UNCOMPRESS", "UNCOMPRESSED_LENGTH",
     "RANDOM_BYTES"}


isKeyword(token) == Str(token) \in keywords

isClauseKeyword(token) == Str(token) \in clauses

isFunction(token) == Str(ToUpper(token)) \in functions

(***************************************************************************)
(* parseTokens                                                             *)
(***************************************************************************)
\* the case labels of the state machine that name more than one token
JoinWords == {"FROM", "JOIN", "INNER", "LEFT", "RIGHT", "OUTER", "CROSS", "NATURAL"}

JoinQualifiers == {"INNER", "LEFT", "RIGHT", "OUTER", "CROSS", "NATURAL"}

TableKeywords == {"UPDATE", "INTO", "TABLE"}

DescribeKeywords == {"DESCRIBE", "DESC", "EXPLAIN"}

\* the condition keywords, had OR been left out of the case
ColumnKeywords_WithoutOr == {"WHERE", "AND", "HAVING"}

ColumnKeywords == {"WHERE", "AND", "OR", "HAVING"}

ValueOperators ==
    {"=", ">", "<", ">=", "<=", "!=", "<>", "LIKE", "IN", "BETWEEN", "IS"}

\* the local variables of parseTokens before the first token
ScanInit(r) ==
    [i |-> 1, r |-> r, lastToken |-> <<>>, prevToken |-> <<>>,
     expectingTableName |-> FALSE, expectingColumnName |-> FALSE,
     afterAs |-> FALSE]

\* the ORDER and GROUP cases, had they not looked at the next token
NextIsBy_Unchecked(toks, i) == TRUE

\* strings.ToUpper(tokens[i+1]) == BY, for the token after position i
NextIsBy(toks, i) == i + 1 <= Len(toks) /\ Str(ToUpper(toks[i + 1])) = "BY"

\* the first switch: track clause presence
ClauseFlags(r, toks, i, u) ==
    IF u = "FROM" THEN [r EXCEPT !.HasFrom = TRUE]
    ELSE IF u = "WHERE" THEN [r EXCEPT !.HasWhere = TRUE]
    ELSE IF u = "ORDER"
    THEN (IF NextIsBy(toks, i) THEN [r EXCEPT !.HasOrderBy = TRUE] ELSE r)
    ELSE IF u = "GROUP"
    THEN (IF NextIsBy(toks, i) THEN [r EXCEPT !.HasGroupBy = TRUE] ELSE r)
    ELSE IF u = "HAVING" THEN [r EXCEPT !.HasHaving = TRUE]
    ELSE r

ExpectColumn(s, ctx) ==
    [s EXCEPT !.r.Context = ctx, !.expectingColumnName = TRUE,
              !.expectingTableName = FALSE]

ExpectTable(s) ==
    [s EXCEPT !.r.Context = ContextTable, !.expectingTableName = TRUE,
              !.expectingColumnName = FALSE]

\* r.Aliases = append(r.Aliases, TableAlias{token, r.Tables[len(r.Tables)-1]})
AppendAlias(r, token) ==
    [r EXCEPT !.Aliases =
        Append(@, [Alias |-> token, TableName |-> r.Tables[Len(r.Tables)]])]

\* the comma case
CommaCase(s) ==
    LET s1 == [s EXCEPT !.r.AfterComma = TRUE, !.r.ExpectingAlias = FALSE]
    IN IF s1.r.Context = ContextTable \/ s1.r.Context = ContextAlias
       THEN ExpectTable(s1)
       ELSE IF s1.expectingColumnName \/ s1.r.Context = ContextColumn
       THEN [s1 EXCEPT !.r.Context = ContextColumn]
       ELSE s1

\* the dot case
DotCase(s) ==
    IF ~isKeyword(s.prevToken) /\ s.prevToken /= <<>> /\ s.prevToken /= <<",">>
    THEN [s EXCEPT !.r.CurrentTable = s.prevToken, !.r.Context = ContextTableDot]
    ELSE s

\* the default case: an identifier (table name, column name, alias, ...)
IdentifierCase(s, token, upperToken) ==
    IF s.afterAs
    THEN LET r1 == IF Len(s.r.Tables) > 0 THEN AppendAlias(s.r, token) ELSE s.r
         IN [s EXCEPT !.r = [r1 EXCEPT !.ExpectingAlias = FALSE],
                      !.afterAs = FALSE]
    ELSE IF s.expectingTableName /\ ~isKeyword(upperToken) /\ token /= <<",">>
    THEN [s EXCEPT !.r.Tables = Append(@, TrimBackticks(token)),
                   !.r.ExpectingAlias = TRUE,
                   !.r.Context = ContextAlias,
                   !.expectingTableName = FALSE]
    ELSE IF s.r.ExpectingAlias /\ ~isKeyword(upperToken) /\ token /= <<",">>
            /\ Str(upperToken) /= "AS" /\ token /= <<".">>
    THEN LET r1 == IF Len(s.r.Tables) > 0 /\ ~isClauseKeyword(upperToken)
                   THEN AppendAlias(s.r, token) ELSE s.r
         IN [s EXCEPT !.r = [r1 EXCEPT !.ExpectingAlias = FALSE]]
    ELSE s

\* the second switch: the state machine for context detection
Transition(s, token, upperToken) ==
    LET u == Str(upperToken)
    IN CASE u = "SELECT" -> ExpectColumn(s, ContextColumn)
         [] u \in JoinWords ->
                IF u = "FROM" \/ u = "JOIN" \/ u \notin JoinQualifiers
                THEN ExpectTable(s) ELSE s
         [] u \in TableKeywords -> ExpectTable(s)
         [] u \in DescribeKeywords ->
                IF ~s.r.HasFrom THEN ExpectTable(s) ELSE s
         [] u = "USE" ->
                [s EXCEPT !.r.Context = ContextDatabase,
                          !.expectingTableName = FALSE,
                          !.expectingColumnName = FALSE]
         [] u \in ColumnKeywords -> ExpectColumn(s, ContextColumn)
         [] u = "SET" -> ExpectColumn(s, ContextColumn)
         [] u = "ORDER" \/ u = "GROUP" ->
                [s EXCEPT !.r.Context = ContextKeyword]
         [] u = "BY" ->
                IF Str(ToUpper(s.prevToken)) = "ORDER"
                   \/ Str(ToUpper(s.prevToken)) = "GROUP"
                THEN ExpectColumn(s, ContextColumn) ELSE s
         [] u = "ON" -> ExpectColumn(s, ContextJoinOn)
         [] u = "AS" ->
                [s EXCEPT !.afterAs = TRUE, !.r.ExpectingAlias = TRUE,
                          !.r.Context = ContextAlias]
         [] u = "SHOW" -> [s EXCEPT !.r.Context = ContextShowItem]
         [] u = "," -> CommaCase(s)
         [] u = "(" ->
                LET s1 == [s EXCEPT !.r.InParentheses = @ + 1]
                IN IF isFunction(s.prevToken)
                   THEN [s1 EXCEPT !.r.Context = ContextFunction] ELSE s1
         [] u = ")" -> [s EXCEPT !.r.InParentheses = @ - 1]
         [] u = "." -> DotCase(s)
         [] u \in ValueOperators ->
                [s EXCEPT !.r.Context = ContextValue, !.r.ExpectingAlias = FALSE]
         [] OTHER -> IdentifierCase(s, token, upperToken)

\* one iteration of the loop for i, token := range tokens
ParseToken(s, toks) ==
    LET token == toks[s.i]
        upperToken == ToUpper(token)
        s1 == [s EXCEPT !.prevToken = s.lastToken, !.lastToken = token,
                        !.r = ClauseFlags(s.r, toks, s.i, Str(upperToken))]
    IN [Transition(s1, token, upperToken) EXCEPT !.i = s.i + 1]

RECURSIVE ParseLoop(_, _)
ParseLoop(s, toks) ==
    IF s.i > Len(toks) THEN s ELSE ParseLoop(ParseToken(s, toks), toks)

\* after the loop: store the last keyword and the partial word
StoreLastWords(r, toks) ==
    LET lastToken == toks[Len(toks)]
    IN IF isKeyword(ToUpper(lastToken))
       THEN [r EXCEPT !.LastKeyword = ToUpper(lastToken)]
       ELSE LET r1 == [r EXCEPT !.PartialWord = lastToken]
            IN IF Len(toks) > 1 /\ isKeyword(ToUpper(toks[Len(toks) - 1]))
               THEN [r1 EXCEPT !.LastKeyword = ToUpper(toks[Len(toks) - 1])]
               ELSE r1

parseTokens(r, toks) ==
    IF Len(toks) = 0 THEN r
    ELSE StoreLastWords(ParseLoop(ScanInit(r), toks).r, toks)

(***************************************************************************)
(* checkTableDotPattern                                                    *)
(***************************************************************************)
\* the class \s of Go regular expressions
RegexSpace == {"\t", "\n", "\f", "\r", " "}

\* the class \w of Go regular expressions
RegexWord == LowerSet \cup UpperSet \cup Digits \cup {"_"}

\* the position of the character that precedes the trailing \s*$, 0 if none
RECURSIVE LastNonSpace(_, _)
LastNonSpace(text, i) ==
    IF i = 0 THEN 0
    ELSE IF text[i] \in RegexSpace THEN LastNonSpace(text, i - 1) ELSE i

\* the first position of the longest run of \w characters that ends at e
RECURSIVE WordRunStart(_, _)
WordRunStart(text, e) ==
    IF e > 1 /\ text[e - 1] \in RegexWord THEN WordRunStart(text, e - 1) ELSE e

\* the first position of the longest run of non-backtick characters ending at e
RECURSIVE QuotedRunStart(_, _)
QuotedRunStart(text, e) ==
    IF e > 1 /\ text[e - 1] /= Backtick THEN QuotedRunStart(text, e - 1) ELSE e

\* FindStringSubmatch of (\w+)\.\s*$ : the empty sequence, or <<match, group 1>>
MatchWordDot(text) ==
    LET d == LastNonSpace(text, Len(text))
    IN IF d >= 2 /\ text[d] = "." /\ text[d - 1] \in RegexWord
       THEN LET b == WordRunStart(text, d - 1)
            IN <<SubSeq(text, b, Len(text)), SubSeq(text, b, d - 1)>>
       ELSE <<>>

\* the parser, had it not tried the backtick-quoted pattern
MatchQuotedDot_Untried(text) == <<>>

\* FindStringSubmatch of the backtick-quoted pattern, group 1 being the quoted name
MatchQuotedDot(text) ==
    LET d == LastNonSpace(text, Len(text))
    IN IF d >= 4 /\ text[d] = "." /\ text[d - 1] = Backtick
          /\ text[d - 2] /= Backtick
       THEN LET b == QuotedRunStart(text, d - 2)
            IN IF b > 1
               THEN <<SubSeq(text, b - 1, Len(text)), SubSeq(text, b, d - 2)>>
               ELSE <<>>
       ELSE <<>>

checkTableDotPattern(r, text) ==
    LET m1 == MatchWordDot(text)
        r1 == IF Len(m1) > 1
              THEN [r EXCEPT !.CurrentTable = m1[2], !.Context = ContextTableDot]
              ELSE r
        m2 == MatchQuotedDot(text)
    IN IF Len(m2) > 1
       THEN [r1 EXCEPT !.CurrentTable = m2[2], !.Context = ContextTableDot]
       ELSE r1

(***************************************************************************)
(* ParseSQLContext                                                         *)
(***************************************************************************)
\* textToCursor := input[:cursorPos], after clamping cursorPos to len(input)
\* the outcome of a call that ends in a run-time panic instead of a result
SliceBoundsPanic == [panic |-> "runtime error: slice bounds out of range"]

\* the text the parser would read, had it ignored the cursor
TextToCursor_Whole(in, pos) == in

TextToCursor(in, pos) == SubSeq(in, 1, IF pos > Len(in) THEN Len(in) ELSE pos)

\* the tokens ParseSQLContext computes (none when it returns before tokenizing)
TokensAtCursor(in, pos) ==
    IF TextToCursor(in, pos) = <<>> THEN <<>>
    ELSE tokenizeSQL(TextToCursor(in, pos))

\* the parser, had it filled the result of the previous call again
ParseSQLContext_Reusing(in, pos) ==
    LET textToCursor == TextToCursor(in, pos)
        r0 == result
    IN IF pos < 0 THEN SliceBoundsPanic
       ELSE IF textToCursor = <<>> THEN r0
       ELSE LET r1 == [r0 EXCEPT !.InParentheses = countParenthesesDepth(textToCursor)]
                toks == tokenizeSQL(textToCursor)
            IN IF Len(toks) = 0 THEN r1
               ELSE checkTableDotPattern(parseTokens(r1, toks), textToCursor)

\* a negative cursorPos is not clamped, and input[:cursorPos] with a negative
\* bound panics
ParseSQLContext(in, pos) ==
    LET textToCursor == TextToCursor(in, pos)
        r0 == NewResult
    IN IF pos < 0 THEN SliceBoundsPanic
       ELSE IF textToCursor = <<>> THEN r0
       ELSE LET r1 == [r0 EXCEPT !.InParentheses = countParenthesesDepth(textToCursor)]
                toks == tokenizeSQL(textToCursor)
            IN IF Len(toks) = 0 THEN r1
               ELSE checkTableDotPattern(parseTokens(r1, toks), textToCursor)

(***************************************************************************)
(* The texts of the editing sessions: words and statements                 *)
(***************************************************************************)
Sp == <<" ">>

Star == <<"*">>

Dot == <<".">>

Comma == <<",">>

LParen == <<"(">>

RParen == <<")">>

wSELECT == <<"S","E","L","E","C","T">>

wFROM == <<"F","R","O","M">>

wWHERE == <<"W","H","E","R","E">>

wJOIN == <<"J","O","I","N">>

wON == <<"O","N">>

wAS == <<"A","S">>

wAND == <<"A","N","D">>

wOR == <<"O","R">>

wHAVING == <<"H","A","V","I","N","G">>

wSET == <<"S","E","T">>

wUPDATE == <<"U","P","D","A","T","E">>

wINTO == <<"I","N","T","O">>

wTABLE == <<"T","A","B","L","E">>

wUSE == <<"U","S","E">>

wSHOW == <<"S","H","O","W">>

wINSERT == <<"I","N","S","E","R","T">>

wCOUNT == <<"C","O","U","N","T">>

wUSER == <<"U","S","E","R">>

id_from == <<"f","r","o","m">>

id_set == <<"s","e","t">>

\* the table users between backticks
q_users == <<Backtick>> \o <<"u","s","e","r","s">> \o <<Backtick>>

id_users == <<"u","s","e","r","s">>

id_orders == <<"o","r","d","e","r","s">>

id_u == <<"u">>

id_id == <<"i","d">>

id_name == <<"n","a","m","e">>

id_total == <<"t","o","t","a","l">>

id_user_id == <<"u","s","e","r","_","i","d">>

id_se == <<"s","e">>

id_select == <<"s","e","l","e","c","t">>

\* a word followed by a space, as a user types it
Then(w) == w \o Sp

\* statements under construction that a session may start from
SelectFromUsers == Then(wSELECT) \o Then(Star) \o Then(wFROM) \o Then(id_users)

SelectJoinOn ==
    SelectFromUsers \o Then(wJOIN) \o Then(id_orders) \o Then(wON)

SelectFromOrdersWhere ==
    Then(wSELECT) \o Then(Star) \o Then(wFROM) \o Then(id_orders) \o Then(wWHERE)

SelectAsAlias == SelectFromUsers \o Then(wAS) \o Then(id_u) \o Then(wWHERE)

SelectColumnAs == Then(wSELECT) \o Then(id_id) \o Then(wAS) \o id_u

InsertColumns == Then(wINSERT) \o Then(wINTO) \o Then(id_users) \o LParen

SelectCount == Then(wSELECT) \o wCOUNT

SelectQuoted == Then(wSELECT) \o Then(Star) \o Then(wFROM) \o q_users

Statements ==
    {SelectFromUsers, SelectJoinOn, SelectFromOrdersWhere, SelectAsAlias,
     SelectColumnAs, InsertColumns, SelectCount, SelectQuoted}

\* what one insertion of the default session adds to the line
Units ==
    {Sp, <<"\t">>, Dot, Comma, LParen, RParen, <<Backtick>>, <<SQuote>>,
     id_users, id_orders, id_u, id_id, id_user_id, q_users,
     Then(wFROM), Then(wJOIN), Then(wWHERE), Then(wAS), Then(wON), Then(id_from)}

\* the statements the keyword session starts from
KeywordStatements == {SelectFromUsers, SelectJoinOn, InsertColumns}

\* what one insertion of the keyword session adds to the line
KeywordUnits ==
    {Then(wSELECT), Then(wWHERE), Then(wAND), Then(wOR), Then(wHAVING),
     Then(wSET), Then(wFROM), Then(wJOIN), Then(wUPDATE), Then(wINTO),
     Then(wTABLE), Then(wUSE), Then(wON), Then(wSHOW), Then(wAS),
     wON, id_set, Then(id_users), Comma}

\* the statements the clause session starts from
ClauseStatements ==
    {SelectFromUsers,
     SelectColumnAs \o Comma \o Then(id_id) \o Then(wFROM) \o Then(id_users)}

\* what one insertion of the clause session adds to the line
ClauseUnits ==
    {Then(id_u), Then(wAS) \o Then(id_u), Then(id_id),
     Comma \o Sp \o Then(id_orders),
     Comma \o Sp \o Then(id_orders) \o Then(<<"o">>),
     Comma \o Sp \o Then(id_users),
     Then(wWHERE), Then(wFROM), Then(wHAVING),
     Then(<<"O","R","D","E","R">>), Then(<<"G","R","O","U","P">>),
     Then(<<"B","Y">>), Then(<<"o","r","d","e","r">>), Then(<<"b","y">>)}

\* the keys of the keystroke session
Keys == {"a", "b", " ", ">", "<", "=", "!", SQuote, Backtick, Backslash, "(", "."}

(***************************************************************************)
(* The schema snapshot of the PromptExecutor                               *)
(***************************************************************************)
\* p.tables
p_tables == <<id_users, id_orders>>

\* p.columns
p_columns == (id_users :> <<id_id, id_name>>)
             @@ (id_orders :> <<id_id, id_total, id_user_id>>)

(***************************************************************************)
(* The editing session: every insertion re-parses the line                 *)
(***************************************************************************)
(***************************************************************************)
(* Suggestions                                                             *)
(***************************************************************************)
Suggest(t, d) == [Text |-> t, Description |-> d]

SuggestTexts(suggs) == [i \in DOMAIN suggs |-> suggs[i].Text]

\* the orders in which a range over the columns map can visit its keys
MapOrders ==
    LET n == Cardinality(DOMAIN p_columns)
    IN {o \in [1..n -> DOMAIN p_columns] :
            \A i, j \in 1..n : i /= j => o[i] /= o[j]}

\* the first alias that folds to name gives its table, else name itself
ResolveAlias(r, name) ==
    LET hits == {k \in DOMAIN r.Aliases : EqualFold(r.Aliases[k].Alias, name)}
    IN IF hits = {} THEN name
       ELSE r.Aliases[CHOOSE k \in hits : \A m \in hits : k <= m].TableName

ColumnsFrom(table, described) ==
    [i \in DOMAIN p_columns[table] |->
        Suggest(p_columns[table][i], "Column from " \o Str(described))]

\* order is the order in which the range over the columns map runs
getColumnsForTable(tableName, ctx, order) ==
    LET resolvedTable == ResolveAlias(ctx, tableName)
        folded == SelectSeq(order, LAMBDA t : EqualFold(t, resolvedTable))
    IN IF resolvedTable \in DOMAIN p_columns
         THEN ColumnsFrom(resolvedTable, resolvedTable)
         ELSE IF folded /= <<>> THEN ColumnsFrom(folded[1], folded[1])
         ELSE <<>>

(***************************************************************************)
(* buildContextAwareSuggestions: the suggestions of a parse result         *)
(***************************************************************************)
\* p.databases
p_databases == << <<"s", "h", "o", "p">> >>

\* the keyword catalog appended to the statement starters
MySQLKeywords ==
    <<Suggest(wSELECT, "Keyword"), Suggest(wFROM, "Keyword"), Suggest(wWHERE, "Keyword")>>

\* the options of SHOW
getShowItemSuggestions ==
    << Suggest(<<"D", "A", "T", "A", "B", "A", "S", "E", "S">>, "Show databases"),
       Suggest(<<"T", "A", "B", "L", "E", "S">>, "Show tables"),
       Suggest(<<"C", "O", "L", "U", "M", "N", "S", " ", "F", "R", "O", "M">>, "Show columns from table"),
       Suggest(<<"I", "N", "D", "E", "X", " ", "F", "R", "O", "M">>, "Show index from table"),
       Suggest(<<"C", "R", "E", "A", "T", "E", " ", "T", "A", "B", "L", "E">>, "Show create table"),
       Suggest(<<"C", "R", "E", "A", "T", "E", " ", "V", "I", "E", "W">>, "Show create view"),
       Suggest(<<"C", "R", "E", "A", "T", "E", " ", "D", "A", "T", "A", "B", "A", "S", "E">>, "Show create database"),
       Suggest(<<"G", "R", "A", "N", "T", "S">>, "Show grants"),
       Suggest(<<"G", "R", "A", "N", "T", "S", " ", "F", "O", "R">>, "Show grants for user"),
       Suggest(<<"P", "R", "O", "C", "E", "S", "S", "L", "I", "S", "T">>, "Show process list"),
       Suggest(<<"F", "U", "L", "L", " ", "P", "R", "O", "C", "E", "S", "S", "L", "I", "S", "T">>, "Show full process list"),
       Suggest(<<"V", "A", "R", "I", "A", "B", "L", "E", "S">>, "Show variables"),
       Suggest(<<"G", "L", "O", "B", "A", "L", " ", "V", "A", "R", "I", "A", "B", "L", "E", "S">>, "Show global variables"),
       Suggest(<<"S", "E", "S", "S", "I", "O", "N", " ", "V", "A", "R", "I", "A", "B", "L", "E", "S">>, "Show session variables"),
       Suggest(<<"S", "T", "A", "T", "U", "S">>, "Show status"),
       Suggest(<<"G", "L", "O", "B", "A", "L", " ", "S", "T", "A", "T", "U", "S">>, "Show global status"),
       Suggest(<<"S", "E", "S", "S", "I", "O", "N", " ", "S", "T", "A", "T", "U", "S">>, "Show session status"),
       Suggest(<<"E", "N", "G", "I", "N", "E">>, "Show engine status"),
       Suggest(<<"E", "N", "G", "I", "N", "E", "S">>, "Show storage engines"),
       Suggest(<<"M", "A", "S", "T", "E", "R", " ", "S", "T", "A", "T", "U", "S">>, "Show master status"),
       Suggest(<<"S", "L", "A", "V", "E", " ", "S", "T", "A", "T", "U", "S">>, "Show slave status"),
       Suggest(<<"R", "E", "P", "L", "I", "C", "A", " ", "S", "T", "A", "T", "U", "S">>, "Show replica status"),
       Suggest(<<"B", "I", "N", "A", "R", "Y", " ", "L", "O", "G", "S">>, "Show binary logs"),
       Suggest(<<"B", "I", "N", "L", "O", "G", " ", "E", "V", "E", "N", "T", "S">>, "Show binlog events"),
       Suggest(<<"W", "A", "R", "N", "I", "N", "G", "S">>, "Show warnings"),
       Suggest(<<"E", "R", "R", "O", "R", "S">>, "Show errors"),
       Suggest(<<"T", "A", "B", "L", "E", " ", "S", "T", "A", "T", "U", "S">>, "Show table status"),
       Suggest(<<"O", "P", "E", "N", " ", "T", "A", "B", "L", "E", "S">>, "Show open tables"),
       Suggest(<<"T", "R", "I", "G", "G", "E", "R", "S">>, "Show triggers"),
       Suggest(<<"E", "V", "E", "N", "T", "S">>, "Show events"),
       Suggest(<<"P", "L", "U", "G", "I", "N", "S">>, "Show plugins"),
       Suggest(<<"P", "R", "I", "V", "I", "L", "E", "G", "E", "S">>, "Show privileges"),
       Suggest(<<"P", "R", "O", "F", "I", "L", "E", "S">>, "Show profiles"),
       Suggest(<<"P", "R", "O", "F", "I", "L", "E">>, "Show profile"),
       Suggest(<<"C", "O", "L", "L", "A", "T", "I", "O", "N">>, "Show collation"),
       Suggest(<<"C", "H", "A", "R", "A", "C", "T", "E", "R", " ", "S", "E", "T">>, "Show character sets") >>

\* the statement starters of getKeywordSuggestions
Starters ==
    << Suggest(<<"S", "E", "L", "E", "C", "T">>, "Query data"),
       Suggest(<<"I", "N", "S", "E", "R", "T", " ", "I", "N", "T", "O">>, "Insert data"),
       Suggest(<<"U", "P", "D", "A", "T", "E">>, "Update data"),
       Suggest(<<"D", "E", "L", "E", "T", "E", " ", "F", "R", "O", "M">>, "Delete data"),
       Suggest(<<"C", "R", "E", "A", "T", "E", " ", "T", "A", "B", "L", "E">>, "Create table"),
       Suggest(<<"A", "L", "T", "E", "R", " ", "T", "A", "B", "L", "E">>, "Alter table"),
       Suggest(<<"D", "R", "O", "P", " ", "T", "A", "B", "L", "E">>, "Drop table"),
       Suggest(<<"S", "H", "O", "W">>, "Show information"),
       Suggest(<<"D", "E", "S", "C", "R", "I", "B", "E">>, "Describe table"),
       Suggest(<<"E", "X", "P", "L", "A", "I", "N">>, "Explain query"),
       Suggest(<<"U", "S", "E">>, "Use database") >>

getKeywordSuggestions == Starters \o MySQLKeywords

\* the function catalog
getFunctionSuggestions ==
    << Suggest(<<"C", "O", "U", "N", "T", "(">>, "Count rows"),
       Suggest(<<"S", "U", "M", "(">>, "Sum values"),
       Suggest(<<"A", "V", "G", "(">>, "Average value"),
       Suggest(<<"M", "I", "N", "(">>, "Minimum value"),
       Suggest(<<"M", "A", "X", "(">>, "Maximum value"),
       Suggest(<<"G", "R", "O", "U", "P", "_", "C", "O", "N", "C", "A", "T", "(">>, "Concatenate group"),
       Suggest(<<"C", "O", "N", "C", "A", "T", "(">>, "Concatenate strings"),
       Suggest(<<"S", "U", "B", "S", "T", "R", "I", "N", "G", "(">>, "Extract substring"),
       Suggest(<<"L", "E", "N", "G", "T", "H", "(">>, "String length"),
       Suggest(<<"U", "P", "P", "E", "R", "(">>, "Uppercase"),
       Suggest(<<"L", "O", "W", "E", "R", "(">>, "Lowercase"),
       Suggest(<<"T", "R", "I", "M", "(">>, "Trim whitespace"),
       Suggest(<<"R", "E", "P", "L", "A", "C", "E", "(">>, "Replace string"),
       Suggest(<<"L", "E", "F", "T", "(">>, "Left substring"),
       Suggest(<<"R", "I", "G", "H", "T", "(">>, "Right substring"),
       Suggest(<<"N", "O", "W", "(", ")">>, "Current timestamp"),
       Suggest(<<"C", "U", "R", "D", "A", "T", "E", "(", ")">>, "Current date"),
       Suggest(<<"C", "U", "R", "T", "I", "M", "E", "(", ")">>, "Current time"),
       Suggest(<<"D", "A", "T", "E", "(">>, "Extract date"),
       Suggest(<<"Y", "E", "A", "R", "(">>, "Extract year"),
       Suggest(<<"M", "O", "N", "T", "H", "(">>, "Extract month"),
       Suggest(<<"D", "A", "Y", "(">>, "Extract day"),
       Suggest(<<"D", "A", "T", "E", "_", "F", "O", "R", "M", "A", "T", "(">>, "Format date"),
       Suggest(<<"D", "A", "T", "E", "_", "A", "D", "D", "(">>, "Add to date"),
       Suggest(<<"D", "A", "T", "E", "_", "S", "U", "B", "(">>, "Subtract from date"),
       Suggest(<<"D", "A", "T", "E", "D", "I", "F", "F", "(">>, "Date difference"),
       Suggest(<<"T", "I", "M", "E", "S", "T", "A", "M", "P", "D", "I", "F", "F", "(">>, "Timestamp difference"),
       Suggest(<<"R", "O", "U", "N", "D", "(">>, "Round number"),
       Suggest(<<"F", "L", "O", "O", "R", "(">>, "Floor value"),
       Suggest(<<"C", "E", "I", "L", "(">>, "Ceiling value"),
       Suggest(<<"A", "B", "S", "(">>, "Absolute value"),
       Suggest(<<"M", "O", "D", "(">>, "Modulo"),
       Suggest(<<"I", "F", "(">>, "If condition"),
       Suggest(<<"I", "F", "N", "U", "L", "L", "(">>, "If null"),
       Suggest(<<"N", "U", "L", "L", "I", "F", "(">>, "Null if equal"),
       Suggest(<<"C", "O", "A", "L", "E", "S", "C", "E", "(">>, "First non-null"),
       Suggest(<<"C", "A", "S", "E">>, "Case expression"),
       Suggest(<<"J", "S", "O", "N", "_", "E", "X", "T", "R", "A", "C", "T", "(">>, "Extract JSON"),
       Suggest(<<"J", "S", "O", "N", "_", "U", "N", "Q", "U", "O", "T", "E", "(">>, "Unquote JSON"),
       Suggest(<<"J", "S", "O", "N", "_", "O", "B", "J", "E", "C", "T", "(">>, "Create JSON object"),
       Suggest(<<"J", "S", "O", "N", "_", "A", "R", "R", "A", "Y", "(">>, "Create JSON array"),
       Suggest(<<"R", "O", "W", "_", "N", "U", "M", "B", "E", "R", "(", ")", " ", "O", "V", "E", "R", " ", "(">>, "Row number"),
       Suggest(<<"R", "A", "N", "K", "(", ")", " ", "O", "V", "E", "R", " ", "(">>, "Rank"),
       Suggest(<<"D", "E", "N", "S", "E", "_", "R", "A", "N", "K", "(", ")", " ", "O", "V", "E", "R", " ", "(">>, "Dense rank"),
       Suggest(<<"L", "A", "G", "(">>, "Previous row value"),
       Suggest(<<"L", "E", "A", "D", "(">>, "Next row value"),
       Suggest(<<"C", "A", "S", "T", "(">>, "Cast type"),
       Suggest(<<"C", "O", "N", "V", "E", "R", "T", "(">>, "Convert type"),
       Suggest(<<"D", "I", "S", "T", "I", "N", "C", "T">>, "Distinct values"),
       Suggest(<<"A", "S">>, "Alias") >>

getTableSuggestions ==
    [i \in DOMAIN p_tables |-> Suggest(p_tables[i], "Table")]
    \o [i \in DOMAIN p_databases |-> Suggest(p_databases[i], "Database")]

getDatabaseSuggestions ==
    [i \in DOMAIN p_databases |-> Suggest(p_databases[i], "Database")]

\* the alias of the first entry of ctx.Aliases declared for tableName, the
\* empty text when there is none
TableAliasOf(ctx, tableName) ==
    LET hits == {k \in DOMAIN ctx.Aliases : ctx.Aliases[k].TableName = tableName}
    IN IF hits = {} THEN <<>>
       ELSE ctx.Aliases[CHOOSE k \in hits : \A m \in hits : k <= m].Alias

\* prefix := tableName, or the alias when it is not empty
PrefixOf(ctx, tableName) ==
    IF TableAliasOf(ctx, tableName) /= <<>> THEN TableAliasOf(ctx, tableName)
    ELSE tableName

\* the columns of one table from the k-th on: a name seen before is
\* qualified; the names seen are handed on
RECURSIVE EmitColumns(_, _, _, _)
EmitColumns(ctx, tableName, k, seenColumns) ==
    LET cols == p_columns[tableName]
    IN IF k > Len(cols) THEN [out |-> <<>>, seen |-> seenColumns]
       ELSE LET col == cols[k]
                txt == IF col \in seenColumns
                         THEN PrefixOf(ctx, tableName) \o Dot \o col
                         ELSE col
                rest == EmitColumns(ctx, tableName, k + 1, seenColumns \cup {col})
            IN [out |-> <<Suggest(txt, "Column from " \o Str(tableName))>> \o rest.out,
                seen |-> rest.seen]

\* the first loop over ctx.Tables, from the t-th table on
RECURSIVE EmitTables(_, _, _)
EmitTables(ctx, t, seenColumns) ==
    IF t > Len(ctx.Tables) THEN <<>>
    ELSE LET tableName == ctx.Tables[t]
             e == IF tableName \in DOMAIN p_columns
                    THEN EmitColumns(ctx, tableName, 1, seenColumns)
                    ELSE [out |-> <<>>, seen |-> seenColumns]
         IN e.out \o EmitTables(ctx, t + 1, e.seen)

\* the second loop over ctx.Tables: one prefix. entry per table
DrillDown(ctx) ==
    [t \in DOMAIN ctx.Tables |->
        Suggest(PrefixOf(ctx, ctx.Tables[t]) \o Dot,
                "Columns from " \o Str(ctx.Tables[t]))]

\* every column of every table, the tables in the order of the map range
RECURSIVE AllColumns(_, _)
AllColumns(order, k) ==
    IF k > Len(order) THEN <<>>
    ELSE ColumnsFrom(order[k], order[k]) \o AllColumns(order, k + 1)

getColumnSuggestions(ctx, order) ==
    LET star == IF \/ ctx.LastKeyword = wSELECT
                   \/ (~ctx.HasWhere /\ ~ctx.HasOrderBy /\ ~ctx.HasGroupBy
                       /\ ~ctx.HasHaving)
                  THEN <<Suggest(Star, "All columns")>> ELSE <<>>
        cols == IF Len(ctx.Tables) > 0
                  THEN EmitTables(ctx, 1, {}) \o DrillDown(ctx)
                  ELSE IF ~ctx.HasFrom
                         THEN [i \in DOMAIN p_tables |->
                                  Suggest(p_tables[i], "Table (add FROM clause)")]
                         ELSE AllColumns(order, 1)
        funcs == IF ~ctx.HasFrom \/ ctx.LastKeyword = wSELECT
                   THEN getFunctionSuggestions ELSE <<>>
    IN star \o cols \o funcs

\* col == "id" || strings.HasSuffix(colLower, "_id")
IsJoinKey(col) == col = id_id \/ HasSuffix(ToLower(col), <<"_", "i", "d">>)

JoinColumnsOf(ctx, tableName) ==
    LET cols == p_columns[tableName]
        keys == SelectSeq(cols, IsJoinKey)
        rest == SelectSeq(cols, LAMBDA col : ~IsJoinKey(col))
    IN [i \in DOMAIN keys |->
           Suggest(PrefixOf(ctx, tableName) \o Dot \o keys[i],
                   "Join key from " \o Str(tableName))]
       \o [i \in DOMAIN rest |->
              Suggest(PrefixOf(ctx, tableName) \o Dot \o rest[i],
                      "Column from " \o Str(tableName))]

RECURSIVE JoinTables(_, _)
JoinTables(ctx, t) ==
    IF t > Len(ctx.Tables) THEN <<>>
    ELSE (IF ctx.Tables[t] \in DOMAIN p_columns
            THEN JoinColumnsOf(ctx, ctx.Tables[t]) ELSE <<>>)
         \o JoinTables(ctx, t + 1)

getJoinColumnSuggestions(ctx) == JoinTables(ctx, 1)

\* order is the order in which a range over the columns map runs
buildContextAwareSuggestions(ctx, order) ==
    CASE ctx.Context = ContextTableDot -> getColumnsForTable(ctx.CurrentTable, ctx, order)
      [] ctx.Context = ContextTable -> getTableSuggestions
      [] ctx.Context = ContextColumn -> getColumnSuggestions(ctx, order)
      [] ctx.Context = ContextJoinOn -> getJoinColumnSuggestions(ctx)
      [] ctx.Context = ContextDatabase -> getDatabaseSuggestions
      [] ctx.Context = ContextShowItem -> getShowItemSuggestions
      [] ctx.Context = ContextAlias -> <<>>
      [] ctx.Context = ContextValue -> <<>>
      [] ctx.Context = ContextKeyword -> getKeywordSuggestions
      [] OTHER -> getKeywordSuggestions

(***************************************************************************)
(* findMatches: the fuzzy filter and its ranking                           *)
(***************************************************************************)
\* the least index of c in s at or after from, 0 when there is none
NextIndex(s, c, from) ==
    LET hits == {i \in from..Len(s) : s[i] = c}
    IN IF hits = {} THEN 0 ELSE CHOOSE i \in hits : \A j \in hits : i <= j

\* the lazy gaps of the pattern take each next character at its first place
RECURSIVE FuzzyScan(_, _, _, _)
FuzzyScan(w, s, k, pos) ==
    IF pos = 0 \/ k > Len(w) THEN pos
    ELSE FuzzyScan(w, s, k + 1, NextIndex(s, w[k], pos + 1))

\* the match, had the prefix comparison of the fallback branch been used
FindStringIndex_Prefix(wordUpper, suggUpper) ==
    IF HasPrefix(suggUpper, wordUpper) THEN <<0, Len(wordUpper)>> ELSE <<>>

\* the leftmost match of the pattern built from wordUpper in suggUpper,
\* as the pair of its start and its end offsets, or the empty tuple
FindStringIndex(wordUpper, suggUpper) ==
    LET first == NextIndex(suggUpper, wordUpper[1], 1)
        last == FuzzyScan(wordUpper, suggUpper, 2, first)
    IN IF last = 0 THEN <<>> ELSE <<first - 1, last>>

calculateMatchScore(w, suggestion, matchStart, matchEnd) ==
    LET wordLower == ToLower(w)
        suggLower == ToLower(suggestion)
        caseBonus == IF Contains(suggestion, w) THEN 100
                     ELSE IF Contains(suggLower, wordLower) THEN 50
                     ELSE 0
        prefixBonus == IF HasPrefix(suggLower, wordLower) THEN 200 ELSE 0
    IN 1000 - matchStart * 10 - (matchEnd - matchStart)
       + caseBonus + prefixBonus - Len(suggestion)

\* the order, had it moved entries of the same score and place as well
SortsAfter_OrTied(x, y) ==
    \/ x.score < y.score
    \/ x.score = y.score /\ x.matchPos >= y.matchPos

\* the order, had it compared the scores only
SortsAfter_ScoreOnly(x, y) == x.score < y.score

\* scored[i] is to move behind scored[j]
SortsAfter(x, y) ==
    \/ x.score < y.score
    \/ x.score = y.score /\ x.matchPos > y.matchPos

Swap(scored, i, j) == [scored EXCEPT ![i] = scored[j], ![j] = scored[i]]

RECURSIVE SortInner(_, _, _)
SortInner(scored, i, j) ==
    IF j > Len(scored) THEN scored
    ELSE SortInner(IF SortsAfter(scored[i], scored[j])
                     THEN Swap(scored, i, j) ELSE scored, i, j + 1)

RECURSIVE SortOuter(_, _)
SortOuter(scored, i) ==
    IF i > Len(scored) THEN scored
    ELSE SortOuter(SortInner(scored, i, i + 1), i + 1)

sortScoredSuggestions(scored) == SortOuter(scored, 1)

\* the candidates the pattern matches, each with its score
RECURSIVE ScoreMatches(_, _, _)
ScoreMatches(w, suggs, i) ==
    IF i > Len(suggs) THEN <<>>
    ELSE LET match == FindStringIndex(ToUpper(w), ToUpper(suggs[i].Text))
         IN (IF match = <<>> THEN <<>>
             ELSE << [suggestion |-> suggs[i],
                      score |-> calculateMatchScore(ToLower(w), suggs[i].Text,
                                                    match[1], match[2]),
                      matchPos |-> match[1]] >>)
            \o ScoreMatches(w, suggs, i + 1)

findMatches(w, suggs) ==
    IF w = <<>> THEN suggs
    ELSE LET scored == sortScoredSuggestions(ScoreMatches(w, suggs, 1))
         IN [i \in DOMAIN scored |-> scored[i].suggestion]

MaxTyped == 3

MaxKeys == 4

MaxCalls == 3

MaxCandidates == 3

MaxAliases == 2

\* the alias lists and the names of the alias session
AliasLists ==
    UNION {[1..n -> [Alias : {id_u, <<"U">>, <<"o">>}, TableName : {id_users, id_orders}]] :
              n \in 0..MaxAliases}

LookupNames == {id_u, <<"U">>, <<"o">>, id_users}

\* the lines the purity session completes on
Lines == {<<>>, SelectFromUsers, SelectAsAlias, InsertColumns, SelectJoinOn \o id_users \o Dot}

CursorStops(line) == {0, Len(line) \div 2, Len(line), Len(line) + 2}

\* the texts and the partial words of the ranking session
\* USER_ID and columns score alike for the word s, at different places;
\* the last text is a name of 166 characters that starts with S
RankTexts ==
    {wSELECT, wSET, wUSER, id_users, id_user_id, id_select,
     ToUpper(id_user_id), <<"c", "o", "l", "u", "m", "n", "s">>,
     [i \in 1..166 |-> IF i = 1 THEN "S" ELSE "X"]}

RankWords == {id_se, <<"S", "E">>, <<"u", "s">>, <<"s", "r">>, <<"s">>, <<>>}

\* the candidates: every text as a keyword, and one text also as a column
RankSuggestions ==
    {Suggest(t, "Keyword") : t \in RankTexts} \cup {Suggest(id_user_id, "Column")}

\* candidate lists, the same candidate may occur more than once
CandidateLists == UNION {[1..n -> RankSuggestions] : n \in 0..MaxCandidates}

Init ==
    /\ input = <<>>
    /\ cursorPos = 0
    /\ tokens = <<>>
    /\ result = NewResult
    /\ typed = 0
    /\ calls = <<>>
    /\ word = <<>>
    /\ candidates = <<>>
    /\ matches = <<>>
    /\ ranked = FALSE
    /\ aliasName = <<>>
    /\ resolved = <<>>
    /\ OthersIdle

\* the text s is inserted at the end of the line and the line is parsed
Insert(s) ==
    /\ typed' = typed + 1
    /\ input' = input \o s
    /\ cursorPos' = Len(input \o s)
    /\ tokens' = TokensAtCursor(input', cursorPos')
    /\ result' = ParseSQLContext(input', cursorPos')
    /\ UNCHANGED <<word, candidates, matches, ranked, aliasName, resolved, others>>

\* a word, a punctuation mark or (on an empty line) a statement is inserted
InsertText(s) == typed < MaxTyped /\ Insert(s) /\ UNCHANGED calls

\* one key is pressed
PressKey(c) == typed < MaxKeys /\ Insert(<<c>>) /\ UNCHANGED calls

Next ==
    \E s \in (IF input = <<>> THEN Statements \cup Units ELSE Units) :
        InsertText(s)

Spec == Init /\ [][Next]_vars

NextKeyword ==
    \E s \in (IF input = <<>> THEN KeywordStatements \cup KeywordUnits
                                ELSE KeywordUnits) :
        InsertText(s)

SpecKeyword == Init /\ [][NextKeyword]_vars

NextClause ==
    \E s \in (IF input = <<>> THEN ClauseStatements \cup ClauseUnits
                                ELSE ClauseUnits) :
        InsertText(s)

SpecClause == Init /\ [][NextClause]_vars

NextKeys == \E c \in Keys : PressKey(c)

SpecKeys == Init /\ [][NextKeys]_vars

\* the session of the qualified names: a statement that ends just after a
\* dot, then what is typed after it
DotStatements ==
    {<<"S", "E", "L", "E", "C", "T", " ", "u", "s", "e", "r", "s", ".">>,
     <<"S", "E", "L", "E", "C", "T", " ", Backtick, "u", "s", "e", "r", "s", Backtick, ".">>,
     <<"S", "E", "L", "E", "C", "T", " ", "*", " ", "F", "R", "O", "M", " ", "u", "s", "e", "r", "s", " ", "W", "H", "E", "R", "E", " ", "u", "s", "e", "r", "s", ".">>,
     <<"S", "E", "L", "E", "C", "T", " ", "*", " ", "F", "R", "O", "M", " ", Backtick, "u", "s", "e", "r", "s", Backtick, " ", "u", " ", "W", "H", "E", "R", "E", " ", Backtick, "u", "s", "e", "r", "s", Backtick, ".">>,
     <<"S", "E", "L", "E", "C", "T", " ", Backtick, "m", "y", " ", "t", "a", "b", "l", "e", Backtick, ".">>}

DotUnits == {id_id, <<"i">>, Sp, Dot, Comma, <<"=">>, Then(wFROM)}

NextDot ==
    \E s \in (IF input = <<>> THEN DotStatements ELSE DotUnits) : InsertText(s)

SpecDot == Init /\ [][NextDot]_vars

\* the Completer parses the line up to the cursor column of the document
CallParse(line, pos) ==
    /\ Len(calls) < MaxCalls
    /\ typed' = typed + 1
    /\ input' = line
    /\ cursorPos' = pos
    /\ tokens' = TokensAtCursor(line, pos)
    /\ result' = ParseSQLContext(line, pos)
    /\ calls' = Append(calls, [line |-> line, cursorPos |-> pos, result |-> result'])
    /\ UNCHANGED <<word, candidates, matches, ranked, aliasName, resolved, others>>

NextPure == \E line \in Lines : \E pos \in CursorStops(line) : CallParse(line, pos)

SpecPure == Init /\ [][NextPure]_vars

\* malformed texts: an unclosed quote, an unclosed backtick, unbalanced
\* parentheses, stray operators, only punctuation
MalformedLines ==
    {<<SQuote, "a">>, <<Backtick, "a", " ">>, <<")", "(", "(">>,
     <<"=", "<", "!">>, <<",", ".", ";">>}

\* cursorPos is an int: below zero, inside the text, beyond its end
CursorOffsets(line) == {-1, Len(line) - 1, Len(line) + 1}

NextCursor ==
    \E line \in MalformedLines : \E pos \in CursorOffsets(line) : CallParse(line, pos)

SpecCursor == Init /\ [][NextCursor]_vars

\* a lookup starts from a parse result with aliases and a name
InitAlias ==
    /\ input = <<>>
    /\ cursorPos = 0
    /\ tokens = <<>>
    /\ \E a \in AliasLists : result = [NewResult EXCEPT !.Aliases = a]
    /\ typed = 0
    /\ calls = <<>>
    /\ word = <<>>
    /\ candidates = <<>>
    /\ matches = <<>>
    /\ ranked = FALSE
    /\ aliasName \in LookupNames
    /\ resolved = <<>>
    /\ OthersIdle

\* the name is resolved against the aliases of the result
Resolve ==
    /\ resolved = <<>>
    /\ resolved' = ResolveAlias(result, aliasName)
    /\ UNCHANGED <<input, cursorPos, tokens, result, typed, calls,
                   word, candidates, matches, ranked, aliasName, others>>

SpecAlias == InitAlias /\ [][Resolve]_vars

\* a ranking starts from a partial word and a list of candidates
InitRank ==
    /\ input = <<>>
    /\ cursorPos = 0
    /\ tokens = <<>>
    /\ result = NewResult
    /\ typed = 0
    /\ calls = <<>>
    /\ word \in RankWords
    /\ candidates \in CandidateLists
    /\ matches = <<>>
    /\ ranked = FALSE
    /\ aliasName = <<>>
    /\ resolved = <<>>
    /\ OthersIdle

\* the candidates are filtered and ranked against the word
Rank ==
    /\ ~ranked
    /\ matches' = findMatches(word, candidates)
    /\ ranked' = TRUE
    /\ UNCHANGED <<input, cursorPos, tokens, result, typed, calls, word, candidates,
                 aliasName, resolved, others>>

\* the ranked list is handed to findMatches again, with the same word
Rerank ==
    /\ ranked /\ rerun = <<>>
    /\ rerun' = <<findMatches(word, matches)>>
    /\ UNCHANGED <<input, cursorPos, tokens, result, typed, calls, word, candidates,
                 matches, ranked, aliasName, resolved, built,
                 now, cacheTime, tables, refreshes, request,
                   sqlStr, errText, fixSuggestion, beyond>>

NextRank == Rank \/ Rerank

MaxBuilds == 2

AllContexts ==
    {ContextUnknown, ContextKeyword, ContextTable, ContextColumn, ContextDatabase,
     ContextFunction, ContextAlias, ContextOperator, ContextValue, ContextJoinOn,
     ContextShowItem, ContextTableDot}

TableAlias(a, t) == [Alias |-> a, TableName |-> t]

\* the tables a statement refers to, with the aliases it declares
References ==
    {[Tables |-> <<>>, Aliases |-> <<>>],
     [Tables |-> <<id_users>>, Aliases |-> <<>>],
     [Tables |-> <<id_users>>, Aliases |-> <<TableAlias(id_u, id_users)>>],
     [Tables |-> <<id_orders, id_users>>, Aliases |-> <<>>],
     [Tables |-> <<id_users, id_orders>>, Aliases |-> <<TableAlias(<<"o">>, id_orders)>>],
     [Tables |-> <<id_users, id_orders>>,
      Aliases |-> <<TableAlias(id_u, id_users), TableAlias(<<"o">>, id_orders)>>],
     [Tables |-> <<id_users, id_users>>,
      Aliases |-> <<TableAlias(<<"a">>, id_users), TableAlias(<<"b">>, id_users)>>]}

\* the parse results handed to buildContextAwareSuggestions
AssemblerInputs ==
    {[NewResult EXCEPT !.Context = c, !.Tables = ref.Tables, !.Aliases = ref.Aliases,
                       !.CurrentTable = ct, !.HasFrom = hf, !.HasWhere = hw,
                       !.LastKeyword = kw] :
        c \in AllContexts, ref \in References,
        ct \in {<<>>, id_users, id_u, ToUpper(id_users)},
        hf \in BOOLEAN, hw \in BOOLEAN, kw \in {<<>>, wSELECT, wWHERE}}

\* a session starts from a parse result
InitSuggest ==
    /\ input = <<>>
    /\ cursorPos = 0
    /\ tokens = <<>>
    /\ result \in AssemblerInputs
    /\ typed = 0
    /\ calls = <<>>
    /\ word = <<>>
    /\ candidates = <<>>
    /\ matches = <<>>
    /\ ranked = FALSE
    /\ aliasName = <<>>
    /\ resolved = <<>>
    /\ OthersIdle

\* the suggestions of the parse result are built; a range over the columns
\* map runs in one of its orders
Build(order) ==
    /\ Len(built) < MaxBuilds
    /\ built' = Append(built, buildContextAwareSuggestions(result, order))
    /\ UNCHANGED <<input, cursorPos, tokens, result, typed, calls, word, candidates,
                   matches, ranked, aliasName, resolved, rerun,
                   now, cacheTime, tables, refreshes, request,
                   sqlStr, errText, fixSuggestion, beyond>>

NextSuggest == \E order \in MapOrders : Build(order)

SpecSuggest == InitSuggest /\ [][NextSuggest]_vars

MaxTime == 65

\* 30*time.Second
RefreshInterval == 30

\* time.Since(p.cacheTime)
Since(t) == now - t

\* refreshCache, had it no guard of its own
StillFresh_Never(t) == FALSE

\* the guard of refreshCache: it returns before any query
StillFresh(t) == Since(t) < RefreshInterval

\* the answers SHOW TABLES can give: no table, the tables of the database,
\* or an error, which leaves p.tables as it is
ShowTablesAnswers == {<<>>, p_tables, tables}

\* a second passes
Tick ==
    /\ now < MaxTime
    /\ now' = now + 1
    /\ UNCHANGED <<input, cursorPos, tokens, result, typed, calls, word, candidates,
                   matches, ranked, aliasName, resolved, rerun, built,
                   cacheTime, tables, refreshes, request,
                   sqlStr, errText, fixSuggestion, beyond>>

\* in.GetWordBeforeCursor(): the text between the last space and the cursor
WordBeforeCursor(line, pos) ==
    LET txt == SubSeq(line, 1, IF pos > Len(line) THEN Len(line) ELSE pos)
        spaces == {k \in DOMAIN txt : txt[k] = " "}
    IN  IF spaces = {} THEN txt
        ELSE SubSeq(txt, (CHOOSE k \in spaces : \A m \in spaces : m <= k) + 1, Len(txt))

contextTriggers ==
    <<<<" ", "F", "R", "O", "M">>,
      <<" ", "J", "O", "I", "N">>,
      <<" ", "W", "H", "E", "R", "E">>,
      <<" ", "H", "A", "V", "I", "N", "G">>,
      <<" ", "O", "N">>,
      <<" ", "O", "R", "D", "E", "R", " ", "B", "Y">>,
      <<" ", "G", "R", "O", "U", "P", " ", "B", "Y">>,
      <<" ", "U", "S", "E">>,
      <<" ", "S", "H", "O", "W">>,
      <<" ", "S", "E", "T">>,
      <<" ", "I", "N", "T", "O">>,
      <<" ", "U", "P", "D", "A", "T", "E">>,
      <<" ", "V", "A", "L", "U", "E", "S">>>>

shouldShowContextSuggestions(line, ctx) ==
    IF line = <<>> THEN FALSE
    ELSE \/ \E k \in DOMAIN contextTriggers : HasSuffix(ToUpper(line), contextTriggers[k])
         \/ ctx.Context = ContextTableDot
         \/ ctx.AfterComma /\ (ctx.HasFrom \/ Contains(ToUpper(line), wSELECT))

\* what Completer returns for a line, its cursor column and a map order;
\* nil is the empty sequence
Suggestions(line, pos, order) ==
    LET w == WordBeforeCursor(line, pos)
        ctx == ParseSQLContext(line, pos)
        lineTrimmed == TrimSpace(line)
        suggestions == buildContextAwareSuggestions(ctx, order)
    IN  IF w = <<>> /\ lineTrimmed = <<>> THEN <<>>
        ELSE IF w = <<>> /\ ~shouldShowContextSuggestions(lineTrimmed, ctx) THEN <<>>
        ELSE IF w /= <<>> THEN findMatches(ToLower(w), suggestions)
        ELSE suggestions

\* a completion request on the document: the cache is refreshed when it is
\* due, then the line is parsed and its suggestions are returned
CompleterOn(answers) ==
    /\ \E order \in MapOrders :
           completions' = <<Suggestions(input, cursorPos, order)>>
    /\ IF (Since(cacheTime) > RefreshInterval \/ Len(tables) = 0)
          /\ ~StillFresh(cacheTime)
         THEN /\ tables' \in answers
              /\ cacheTime' = now
              /\ refreshes' = Append(refreshes, now)
         ELSE UNCHANGED <<tables, cacheTime, refreshes>>
    /\ request' = <<[at |-> now, empty |-> Len(tables) = 0,
                     refreshed |-> refreshes' /= refreshes,
                     db |-> database, after |-> fed, offered |-> tables']>>
    /\ tokens' = TokensAtCursor(input, cursorPos)
    /\ result' = ParseSQLContext(input, cursorPos)
    /\ UNCHANGED <<sqlStr, errText, fixSuggestion, startup, shell, bridge>>
    /\ UNCHANGED <<input, cursorPos, typed, calls, word, candidates,
                   matches, ranked, aliasName, resolved, rerun, built, now>>

Completer == CompleterOn(ShowTablesAnswers)

NextCache == Tick \/ Completer

SpecCache == Init /\ [][NextCache]_vars

\* the documents of the completion session, the cursor at the end: each
\* trigger keyword as the first word and after other words, lines without
\* a trigger, and lines with a partial word
TriggerKeywords ==
    {<<"F", "R", "O", "M">>,
     <<"J", "O", "I", "N">>,
     <<"W", "H", "E", "R", "E">>,
     <<"H", "A", "V", "I", "N", "G">>,
     <<"O", "N">>,
     <<"O", "R", "D", "E", "R", " ", "B", "Y">>,
     <<"G", "R", "O", "U", "P", " ", "B", "Y">>,
     <<"U", "S", "E">>,
     <<"S", "H", "O", "W">>,
     <<"S", "E", "T">>,
     <<"I", "N", "T", "O">>,
     <<"U", "P", "D", "A", "T", "E">>,
     <<"V", "A", "L", "U", "E", "S">>}

TriggerPrefixes ==
    {<<>>,
     <<"S", "E", "L", "E", "C", "T", " ", "*", " ">>,
     <<"S", "E", "L", "E", "C", "T", " ", "*", " ", "F", "R", "O", "M", " ", "u", "s", "e", "r", "s", " ">>,
     <<"I", "N", "S", "E", "R", "T", " ">>}

CompletionLines ==
    {pre \o kw \o Sp : pre \in TriggerPrefixes, kw \in TriggerKeywords}
        \cup {<<"S", "E", "L", "E", "C", "T", " ">>,
              <<"S", "E", "L", "E", "C", "T", " ", "*", " ", "F", "R", "O", "M", " ", "u", "s", "e", "r", "s", " ">>,
              <<"S", "E", "L", "E", "C", "T", " ", "i", "d", ",", " ">>,
              <<"S", "E", "L", "E", "C", "T", " ", "u", "s", "e", "r", "s", ".">>,
              <<"S", "E", "L", "E", "C", "T", " ", "*", " ", "F", "R", "O", "M", " ", "u", "s">>,
              <<"S", "E", "L">>,
              <<"S", "E", "L", "E", "C", "T", " ", "*", " ", "F", "R", "O", "M", " ", "u", "s", "e", "r", "s", " ", "W", "H", "E", "R", "E", " ", "i">>}

\* the cache was refreshed when the document was opened
InitComplete ==
    /\ input \in CompletionLines
    /\ cursorPos = Len(input)
    /\ tokens = <<>>
    /\ result = NewResult
    /\ typed = 0
    /\ calls = <<>>
    /\ word = <<>>
    /\ candidates = <<>>
    /\ matches = <<>>
    /\ ranked = FALSE
    /\ aliasName = <<>>
    /\ resolved = <<>>
    /\ rerun = <<>> /\ built = <<>>
    /\ now = 0 /\ cacheTime = 0 /\ tables = p_tables /\ refreshes = <<0>>
    /\ request = <<>>
    /\ sqlStr = <<>> /\ errText = <<>> /\ fixSuggestion = <<>>
    /\ BeyondIdle

NextComplete == Completer

SpecComplete == InitComplete /\ [][NextComplete]_vars

(***************************************************************************)
(* SuggestFixedSQL: the correction offered after a syntax error            *)
(***************************************************************************)

\* strings.Index: the 0-based offset of the first occurrence, or -1
Index(s, sub) ==
    LET at == {k \in 0..(Len(s) - Len(sub)) : SubSeq(s, k + 1, k + Len(sub)) = sub}
    IN  IF at = {} THEN -1 ELSE CHOOSE k \in at : \A m \in at : k <= m

\* strings.ReplaceAll, for a non-empty old
RECURSIVE ReplaceFrom(_, _, _, _)
ReplaceFrom(s, old, new, i) ==
    IF i > Len(s) THEN <<>>
    ELSE IF i + Len(old) - 1 <= Len(s) /\ SubSeq(s, i, i + Len(old) - 1) = old
         THEN new \o ReplaceFrom(s, old, new, i + Len(old))
         ELSE <<s[i]>> \o ReplaceFrom(s, old, new, i + 1)

ReplaceAll(s, old, new) == ReplaceFrom(s, old, new, 1)

Error1064 == <<"E", "R", "R", "O", "R", " ", "1", "0", "6", "4">>
SelectSp == <<"S", "E", "L", "E", "C", "T", " ">>
SpWhereSp == <<" ", "W", "H", "E", "R", "E", " ">>
SpFromSp == <<" ", "F", "R", "O", "M", " ">>
SpJoinSp == <<" ", "J", "O", "I", "N", " ">>
SpUnionSp == <<" ", "U", "N", "I", "O", "N", " ">>
SelectParen == <<"S", "E", "L", "E", "C", "T", "(">>
actor_sp_id == <<"a", "c", "t", "o", "r", " ", "i", "d">>
actor_us_id == <<"a", "c", "t", "o", "r", "_", "i", "d">>
t_actor == <<"a", "c", "t", "o", "r">>
TablePlaceholder == <<"<", "t", "a", "b", "l", "e", ">">>

\* the guardrails: parentheses, JOIN, UNION, subqueries
Guardrails(upper) ==
    \/ Contains(upper, LParen)
    \/ Contains(upper, SpJoinSp)
    \/ Contains(upper, SpUnionSp)
    \/ Contains(upper, SelectParen)

\* a WHERE without a FROM: a FROM is inserted just before the WHERE
InsertFrom(pTables, trimmed, upper) ==
    LET whereIdx == Index(upper, SpWhereSp)
        left == TrimSpace(SubSeq(trimmed, 1, whereIdx))
        right == TrimSpace(SubSeq(trimmed, whereIdx + 8, Len(trimmed)))
        lowerRight == ToLower(right)
        guessed == IF Contains(lowerRight, actor_sp_id) \/ Contains(lowerRight, actor_us_id)
                     THEN t_actor ELSE <<>>
        candidateTable == IF guessed = <<>> /\ Len(pTables) > 0
                            THEN pTables[1] ELSE guessed
    IN  IF candidateTable /= <<>>
          THEN left \o SpFromSp \o candidateTable \o SpWhereSp \o right
          ELSE left \o SpFromSp \o TablePlaceholder \o SpWhereSp \o right

\* the actor id pattern in three spellings
FixActorId(s) ==
    ReplaceAll(ReplaceAll(ReplaceAll(s, actor_sp_id, actor_us_id),
                          ToUpper(actor_sp_id), ToUpper(actor_us_id)),
               <<"A", "c", "t", "o", "r", " ", "I", "d">>, <<"A", "c", "t", "o", "r", "_", "I", "d">>)

SuggestFixedSQL(pTables, sql, err) ==
    LET msg == ToUpper(err)
        trimmed == TrimSpace(sql)
        upper == ToUpper(trimmed)
    IN  IF ~Contains(msg, Error1064) THEN <<>>
        ELSE IF trimmed = <<>> THEN <<>>
        ELSE IF ~HasPrefix(upper, SelectSp) \/ ~Contains(upper, SpWhereSp) THEN <<>>
        ELSE IF Guardrails(upper) THEN <<>>
        ELSE LET fixed == IF ~Contains(upper, SpFromSp)
                            THEN IF Index(upper, SpWhereSp) = -1 THEN <<>>
                                 ELSE InsertFrom(pTables, trimmed, upper)
                            ELSE trimmed
                 sug == FixActorId(fixed)
             IN  IF ~Contains(upper, SpFromSp) /\ Index(upper, SpWhereSp) = -1 THEN <<>>
                 ELSE IF TrimSpace(sug) = TrimSpace(sql) THEN <<>>
                 ELSE sug

(***************************************************************************)
(* The rejected statements of the session                                  *)
(***************************************************************************)

FixSeparators == {<<" ">>, <<"\t">>, <<"\n">>}

FixKeywords == {<<"j", "o", "i", "n">>, <<"U", "N", "I", "O", "N">>}

\* the keyword between two table references, before the WHERE
KeywordInside ==
    {<<"s", "e", "l", "e", "c", "t", " ", "*", " ", "f", "r", "o", "m", " ", "a", "c", "t", "o", "r">> \o b \o k \o a \o <<"m", "o", "v", "i", "e", "s", " ", "w", "h", "e", "r", "e", " ", "a", "c", "t", "o", "r", " ", "i", "d", " ", "=", " ", "2", ";">> :
         b \in FixSeparators, k \in FixKeywords, a \in FixSeparators}

\* the keyword as the last word of the statement
KeywordAtEnd ==
    {<<"s", "e", "l", "e", "c", "t", " ", "*", " ", "f", "r", "o", "m", " ", "a", "c", "t", "o", "r", " ", "w", "h", "e", "r", "e", " ", "a", "c", "t", "o", "r", " ", "i", "d", " ", "=", " ", "2">> \o b \o k : b \in FixSeparators, k \in FixKeywords}

PlainStatements ==
    {<<"s", "e", "l", "e", "c", "t", " ", "*", " ", "w", "h", "e", "r", "e", " ", "a", "c", "t", "o", "r", " ", "i", "d", " ", "=", " ", "2", ";">>,
     <<"s", "e", "l", "e", "c", "t", " ", "*", " ", "f", "r", "o", "m", " ", "a", "c", "t", "o", "r", " ", "w", "h", "e", "r", "e", " ", "a", "c", "t", "o", "r", " ", "i", "d", " ", "=", " ", "2", ";">>,
     <<"s", "e", "l", "e", "c", "t", " ", "*", " ", "f", "r", "o", "m", " ", "a", "c", "t", "o", "r", " ", "w", "h", "e", "r", "e", " ", "a", "c", "t", "o", "r", "_", "i", "d", " ", "=", " ", "2", ";">>,
     <<"s", "e", "l", "e", "c", "t", " ", "c", "o", "u", "n", "t", "(", "*", ")", " ", "f", "r", "o", "m", " ", "a", "c", "t", "o", "r", " ", "w", "h", "e", "r", "e", " ", "a", "c", "t", "o", "r", " ", "i", "d", " ", "=", " ", "2", ";">>,
     <<"s", "e", "l", "e", "c", "t", " ", "*", " ", "f", "r", "o", "m", " ", "a", "c", "t", "o", "r", " ", "w", "h", "e", "r", "e", " ", "a", "c", "t", "o", "r", " ", "i", "d", " ", "i", "n", " ", "(", "2", ")", ";">>,
     <<"u", "p", "d", "a", "t", "e", " ", "a", "c", "t", "o", "r", " ", "s", "e", "t", " ", "x", " ", "=", " ", "1", " ", "w", "h", "e", "r", "e", " ", "a", "c", "t", "o", "r", " ", "i", "d", " ", "=", " ", "2", ";">>,
     <<>>,
     <<" ", " ">>}

FixStatements == KeywordInside \cup KeywordAtEnd \cup PlainStatements

ErrorTexts ==
    {<<"E", "R", "R", "O", "R", " ", "1", "0", "6", "4", ":", " ", "Y", "o", "u", " ", "h", "a", "v", "e", " ", "a", "n", " ", "e", "r", "r", "o", "r", " ", "i", "n", " ", "y", "o", "u", "r", " ", "S", "Q", "L", " ", "s", "y", "n", "t", "a", "x">>,
     <<"s", "o", "m", "e", " ", "o", "t", "h", "e", "r", " ", "e", "r", "r", "o", "r">>,
     <<"E", "r", "r", "o", "r", " ", "1", "0", "6", "4", " ", "(", "4", "2", "0", "0", "0", ")", ":", " ", "n", "e", "a", "r", " ", "'", "i", "d", "'">>}

CachedTables == {<<>>, <<t_actor, id_users>>}

InitFix ==
    /\ input = <<>>
    /\ cursorPos = 0
    /\ tokens = <<>>
    /\ result = NewResult
    /\ typed = 0
    /\ calls = <<>>
    /\ word = <<>>
    /\ candidates = <<>>
    /\ matches = <<>>
    /\ ranked = FALSE
    /\ aliasName = <<>>
    /\ resolved = <<>>
    /\ rerun = <<>> /\ built = <<>> /\ now = 0 /\ cacheTime = ZeroTime
    /\ refreshes = <<>> /\ request = <<>>
    /\ tables \in CachedTables
    /\ sqlStr \in FixStatements
    /\ errText \in ErrorTexts
    /\ fixSuggestion = <<>>
    /\ BeyondIdle

\* maybeSuggestFixedSQL asks for a correction of the rejected statement
MaybeSuggestFixedSQL ==
    /\ fixSuggestion = <<>>
    /\ fixSuggestion' = <<SuggestFixedSQL(tables, sqlStr, errText)>>
    /\ UNCHANGED <<input, cursorPos, tokens, result, typed, calls, word, candidates,
                   matches, ranked, aliasName, resolved, rerun, built,
                   now, cacheTime, tables, refreshes, request, sqlStr, errText, beyond>>

NextFix == MaybeSuggestFixedSQL

SpecFix == InitFix /\ [][NextFix]_vars

(***************************************************************************)
(* The connection settings: config files and command-line flags            *)
(***************************************************************************)

\* MySQLConfig; Port 0 means not set
EmptyConfig ==
    [User |-> <<>>, Password |-> <<>>, Host |-> <<>>, Port |-> 0,
     Socket |-> <<>>, Database |-> <<>>]

DigitChars == <<"0", "1", "2", "3", "4", "5", "6", "7", "8", "9">>

DigitValue(c) == (CHOOSE k \in DOMAIN DigitChars : DigitChars[k] = c) - 1

RECURSIVE Decimal(_)
Decimal(ds) ==
    IF ds = <<>> THEN 0
    ELSE 10 * Decimal(SubSeq(ds, 1, Len(ds) - 1)) + DigitValue(ds[Len(ds)])

\* strconv.Atoi: an optional sign and decimal digits, an error otherwise
Atoi(s) ==
    LET signed == s /= <<>> /\ s[1] \in {"+", "-"}
        digits == IF signed THEN Tail(s) ELSE s
    IN  IF digits = <<>> \/ \E k \in DOMAIN digits : digits[k] \notin Digits
          THEN [err |-> TRUE, n |-> 0]
          ELSE [err |-> FALSE,
                n |-> IF signed /\ s[1] = "-" THEN 0 - Decimal(digits) ELSE Decimal(digits)]

\* section.Key(k).String(): the empty string for a key the section lacks
Key(section, k) == IF k \in DOMAIN section THEN section[k] ELSE <<>>

\* the port of a key, into a config whose port is not set yet
ReadPort(c, portStr) ==
    IF portStr /= <<>> /\ ~Atoi(portStr).err /\ c.Port = 0
      THEN [c EXCEPT !.Port = Atoi(portStr).n] ELSE c

\* the body of the loop over the sections, for one section that exists
readSection(section, sectionName, c0) ==
    LET c1 == IF Key(section, "user") /= <<>> /\ c0.User = <<>>
                THEN [c0 EXCEPT !.User = Key(section, "user")] ELSE c0
        c2 == IF Key(section, "password") /= <<>> /\ c1.Password = <<>>
                THEN [c1 EXCEPT !.Password = Key(section, "password")] ELSE c1
        c3 == IF Key(section, "host") /= <<>> /\ c2.Host = <<>>
                THEN [c2 EXCEPT !.Host = Key(section, "host")] ELSE c2
        c4 == ReadPort(c3, Key(section, "port"))
        c5 == IF Key(section, "socket") /= <<>> /\ c4.Socket = <<>> /\ c4.Host = <<>>
                THEN [c4 EXCEPT !.Socket = Key(section, "socket")] ELSE c4
        c6 == IF Key(section, "database") /= <<>> /\ c5.Database = <<>>
                THEN [c5 EXCEPT !.Database = Key(section, "database")] ELSE c5
        c7 == IF Key(section, "default_socket") /= <<>> /\ c6.Socket = <<>> /\ c6.Host = <<>>
                THEN [c6 EXCEPT !.Socket = Key(section, "default_socket")] ELSE c6
        c8 == ReadPort(c7, Key(section, "default_port"))
        c9 == IF Key(section, "default_user") /= <<>> /\ c8.User = <<>>
                THEN [c8 EXCEPT !.User = Key(section, "default_user")] ELSE c8
    IN  IF sectionName = "mysqld" THEN c9 ELSE c6

\* the sections consulted in a file, in order
SectionsOf(login) ==
    IF login /= "" /\ login /= "client"
      THEN <<"client", "mysqld", login>> ELSE <<"client", "mysqld">>

RECURSIVE readSections(_, _, _, _)
readSections(cfg, sections, k, c) ==
    IF k > Len(sections) THEN c
    ELSE readSections(cfg, sections, k + 1,
             IF sections[k] \in DOMAIN cfg
               THEN readSection(cfg[sections[k]], sections[k], c) ELSE c)

\* readConfigFile: a file that is missing or does not load changes nothing
readConfigFile(file, c, login) ==
    IF ~file.exists \/ ~file.loads THEN c
    ELSE readSections(file.cfg, SectionsOf(login), 1, c)

HomeDir == "/home/user"

\* the files read by ReadMySQLConfig, in reading order
ConfigFilePaths(configFilePath) ==
    <<"/etc/my.cnf", "/etc/mysql/my.cnf", "/usr/local/etc/my.cnf", HomeDir \o "/.my.cnf">>
        \o (IF configFilePath /= "" THEN <<configFilePath>> ELSE <<>>)

RECURSIVE ReadFiles(_, _, _, _, _)
ReadFiles(fs, paths, k, c, login) ==
    IF k > Len(paths) THEN c
    ELSE ReadFiles(fs, paths, k + 1, readConfigFile(fs[paths[k]], c, login), login)

ReadMySQLConfig(fs, login, configFilePath) ==
    ReadFiles(fs, ConfigFilePaths(configFilePath), 1, EmptyConfig, login)

\* os.Getenv("USER")
EnvUser == <<"e", "n", "v", "u", "s", "e", "r">>

Localhost == <<"l", "o", "c", "a", "l", "h", "o", "s", "t">>

DefaultPort == 3306

MergeConfig(c, cliUser, cliPassword, cliHost, cliPort, cliSocket, cliDatabase) ==
    LET m1 == [User     |-> IF cliUser /= <<>> THEN cliUser ELSE c.User,
               Password |-> IF cliPassword /= <<>> THEN cliPassword ELSE c.Password,
               Host     |-> IF cliHost /= <<>> THEN cliHost ELSE c.Host,
               Port     |-> IF cliPort /= 0 THEN cliPort ELSE c.Port,
               Socket   |-> IF cliSocket /= <<>> THEN cliSocket ELSE c.Socket,
               Database |-> IF cliDatabase /= <<>> THEN cliDatabase ELSE c.Database]
        m2 == IF m1.User = <<>> THEN [m1 EXCEPT !.User = EnvUser] ELSE m1
        m3 == IF m2.Host = <<>> /\ m2.Socket = <<>> THEN [m2 EXCEPT !.Host = Localhost] ELSE m2
        m4 == IF m3.Port = 0 THEN [m3 EXCEPT !.Port = DefaultPort] ELSE m3
    IN  IF (cliHost /= <<>> \/ c.Host /= <<>>) /\ m4.Socket /= <<>>
          THEN [m4 EXCEPT !.Socket = <<>>] ELSE m4

\* the default of the -P/--port flag
PortFlagDefault == 3306

\* the variable port after the flags are parsed
PortFlag(a) == IF a.port = <<>> THEN PortFlagDefault ELSE a.port[1]

(***************************************************************************)
(* The start-ups of the session                                            *)
(***************************************************************************)

NoFile == [exists |-> FALSE, loads |-> FALSE, cfg |-> <<>>]

BrokenFile == [exists |-> TRUE, loads |-> FALSE, cfg |-> <<>>]

IniFile(cfg) == [exists |-> TRUE, loads |-> TRUE, cfg |-> cfg]

ClientAlice ==
    IniFile([client |-> [user |-> <<"a", "l", "i", "c", "e">>, password |-> <<"p", "w", "1">>, host |-> <<"d", "b", "1">>,
                         port |-> <<"3", "3", "0", "7">>, database |-> <<"s", "h", "o", "p">>]])

ClientBob ==
    IniFile([client |-> [user |-> <<"b", "o", "b">>, password |-> <<"p", "w", "2">>, host |-> <<"d", "b", "2">>,
                         port |-> <<"3", "3", "0", "8">>, database |-> <<"c", "r", "m">>]])

ServerDefaults ==
    IniFile([mysqld |-> [default_user |-> <<"c", "a", "r", "o", "l">>, default_port |-> <<"3", "3", "0", "9">>,
                         default_socket |-> <<"/", "t", "m", "p", "/", "m", "y", "s", "q", "l", ".", "s", "o", "c", "k">>]])

ClientBadPort ==
    IniFile([client |-> [port |-> <<"3", "3", "o", "7">>, socket |-> <<"/", "v", "a", "r", "/", "r", "u", "n", "/", "m", "y", "s", "q", "l", "d", ".", "s", "o", "c", "k">>]])

LoginProd ==
    IniFile([prod |-> [user |-> <<"d", "a", "v", "e">>, port |-> <<"3", "3", "1", "0">>, host |-> <<"d", "b", "3">>]])

SystemFiles == {NoFile, ClientAlice, ServerDefaults}

UserFiles == {NoFile, BrokenFile, ClientAlice, ClientBob, ServerDefaults, ClientBadPort, LoginProd}

CustomPath == "/tmp/custom.cnf"

FileSystems ==
    {[path \in {"/etc/my.cnf", "/etc/mysql/my.cnf", "/usr/local/etc/my.cnf",
                HomeDir \o "/.my.cnf", CustomPath} |->
         CASE path = "/etc/my.cnf" -> a
           [] path = "/etc/mysql/my.cnf" -> NoFile
           [] path = "/usr/local/etc/my.cnf" -> b
           [] path = HomeDir \o "/.my.cnf" -> h
           [] OTHER -> c] :
       a \in SystemFiles, b \in SystemFiles, h \in UserFiles, c \in UserFiles}

CommandLines ==
    [port : {<<>>, <<3311>>}, user : {<<>>, <<"c", "l", "i", "u", "s", "e", "r">>}, host : {<<>>, <<"c", "l", "i", "h", "o", "s", "t">>},
     password : {<<>>}, socket : {<<>>}, database : {<<>>},
     config : {"", CustomPath}]

LoginPaths == {"", "client", "prod"}

InitStart ==
    /\ input = <<>>
    /\ cursorPos = 0
    /\ tokens = <<>>
    /\ result = NewResult
    /\ typed = 0
    /\ calls = <<>>
    /\ word = <<>>
    /\ candidates = <<>>
    /\ matches = <<>>
    /\ ranked = FALSE
    /\ aliasName = <<>>
    /\ resolved = <<>>
    /\ rerun = <<>> /\ built = <<>>
    /\ now = 0 /\ cacheTime = ZeroTime /\ tables = <<>> /\ refreshes = <<>>
    /\ request = <<>>
    /\ sqlStr = <<>> /\ errText = <<>> /\ fixSuggestion = <<>>
    /\ configFiles \in FileSystems
    /\ loginPath \in LoginPaths
    /\ args \in CommandLines
    /\ config = <<>> /\ mergedConfig = <<>>
    /\ rawValue = <<>> /\ stripped = <<>>
    /\ ShellIdle /\ BridgeIdle /\ completions = <<>>

\* Start: the config files are read and merged with the flags
Start ==
    /\ config = <<>>
    /\ config' = <<ReadMySQLConfig(configFiles, loginPath, args.config)>>
    /\ mergedConfig' = <<MergeConfig(config'[1], args.user, args.password, args.host,
                                     PortFlag(args), args.socket, args.database)>>
    /\ UNCHANGED <<input, cursorPos, tokens, result, typed, calls, word, candidates,
                   matches, ranked, aliasName, resolved, rerun, built,
                   now, cacheTime, tables, refreshes, request,
                   sqlStr, errText, fixSuggestion,
                   configFiles, loginPath, args, rawValue, stripped, shell, bridge, completions>>

NextStart == Start

SpecStart == InitStart /\ [][NextStart]_vars

(***************************************************************************)
(* StripMatchingQuotes                                                     *)
(***************************************************************************)

SingleQuote == <<"'">>

DoubleQuote == <<"\"">>

\* s[1 : len(s)-1] panics when the low bound exceeds the high bound
StripMatchingQuotes(s) ==
    LET t == TrimSpace(s)
    IN  IF \/ HasPrefix(t, SingleQuote) /\ HasSuffix(t, SingleQuote)
           \/ HasPrefix(t, DoubleQuote) /\ HasSuffix(t, DoubleQuote)
          THEN IF 1 > Len(t) - 1 THEN SliceBoundsPanic
               ELSE [returned |-> SubSeq(t, 2, Len(t) - 1)]
          ELSE [returned |-> t]

MaxValueLen == 3

ValueChars == {"'", "\"", " ", "a"}

RawValues == UNION {[1..n -> ValueChars] : n \in 0..MaxValueLen}

InitQuotes ==
    /\ input = <<>>
    /\ cursorPos = 0
    /\ tokens = <<>>
    /\ result = NewResult
    /\ typed = 0
    /\ calls = <<>>
    /\ word = <<>>
    /\ candidates = <<>>
    /\ matches = <<>>
    /\ ranked = FALSE
    /\ aliasName = <<>>
    /\ resolved = <<>>
    /\ rerun = <<>> /\ built = <<>>
    /\ now = 0 /\ cacheTime = ZeroTime /\ tables = <<>> /\ refreshes = <<>>
    /\ request = <<>>
    /\ sqlStr = <<>> /\ errText = <<>> /\ fixSuggestion = <<>>
    /\ configFiles = <<>> /\ loginPath = "" /\ args = <<>>
    /\ config = <<>> /\ mergedConfig = <<>>
    /\ rawValue \in RawValues
    /\ stripped = <<>>
    /\ ShellIdle /\ BridgeIdle /\ completions = <<>>

\* a value is stripped of its quotes
Strip ==
    /\ stripped = <<>>
    /\ stripped' = <<StripMatchingQuotes(rawValue)>>
    /\ UNCHANGED <<input, cursorPos, tokens, result, typed, calls, word, candidates,
                   matches, ranked, aliasName, resolved, rerun, built,
                   now, cacheTime, tables, refreshes, request,
                   sqlStr, errText, fixSuggestion,
                   configFiles, loginPath, args, config, mergedConfig, rawValue, shell, bridge, completions>>

NextQuotes == Strip

SpecQuotes == InitQuotes /\ [][NextQuotes]_vars

(***************************************************************************)
(* Executor: the statement buffer and the backslash commands               *)
(***************************************************************************)

Semicolon == <<";">>

VerticalEnd == <<Backslash, "G">>

DescSp == <<"D", "E", "S", "C", " ">>

\* the databases of the server and their tables
ServerDatabases == {<<"s", "h", "o", "p">>, <<"c", "r", "m">>}

ServerTables(db) == IF db = <<"s", "h", "o", "p">> THEN p_tables ELSE <<<<"i", "n", "v", "o", "i", "c", "e", "s">>>>

\* ExecuteSQL: the statement sent to the server, none for an empty text
ExecuteSQL(log, sql0, vertical0) ==
    LET sql1 == TrimSpace(sql0)
        ends == Len(sql1) >= 2 /\ ToUpper(SubSeq(sql1, Len(sql1) - 1, Len(sql1))) = VerticalEnd
        sql2 == IF ends THEN TrimSpace(SubSeq(sql1, 1, Len(sql1) - 2)) ELSE sql1
        sql3 == IF HasPrefix(ToUpper(sql2), DescSp)
                  THEN <<"D", "E", "S", "C", "R", "I", "B", "E", " ">> \o TrimSpace(SubSeq(sql2, 6, Len(sql2)))
                  ELSE sql2
    IN  IF sql1 = <<>> THEN log
        ELSE Append(log, [sql |-> sql1, sent |-> sql3, vertical |-> vertical0 \/ ends])

\* strings.SplitN(s, sep, 2), for a separator that occurs in s
SplitN2(s, sep) ==
    <<SubSeq(s, 1, Index(s, sep)), SubSeq(s, Index(s, sep) + Len(sep) + 1, Len(s))>>

\* the last part of Executor: the line joins the buffer, and the text up to
\* the first terminator is executed
Accumulate(p, in) ==
    LET buf == p.buffer \o in \o <<"\n">>
        sep == IF Contains(buf, Semicolon) THEN Semicolon ELSE VerticalEnd
        parts == SplitN2(buf, sep)
        sql == TrimSpace(parts[1])
        remaining == TrimSpace(parts[2])
    IN  IF Contains(buf, Semicolon) \/ Contains(buf, VerticalEnd)
          THEN [p EXCEPT !.buffer = remaining,
                         !.executed = IF sql /= <<>>
                                        THEN ExecuteSQL(@, sql, sep = VerticalEnd) ELSE @]
          ELSE [p EXCEPT !.buffer = buf]

\* \g, \go: the buffer is executed at once
Go(p) ==
    IF p.buffer /= <<>> /\ TrimSpace(p.buffer) /= <<>>
      THEN [p EXCEPT !.executed = ExecuteSQL(@, TrimSpace(p.buffer), FALSE), !.buffer = <<>>]
      ELSE p

\* switchDatabase: USE fails for a database the server does not have, or
\* when the server does not answer
switchDatabase(p, dbName, ok) ==
    IF ok /\ dbName \in ServerDatabases THEN [p EXCEPT !.database = dbName] ELSE p

\* reconnect: the caches are cleared once the new connection answers
reconnect(p, ok) ==
    IF ok THEN [p EXCEPT !.tables = <<>>, !.cacheTime = ZeroTime] ELSE p

\* Executor on the state p of the executor; ok is whether the server
\* answers.  The commands that leave the buffer, the database and the cache
\* alone fall under OTHER; exit, quit and source are not lines of a session.
ExecutorOn(p, line, ok) ==
    LET in == TrimSpace(line)
    IN  IF HasPrefix(in, <<Backslash>>)
          THEN CASE in \in {<<Backslash, "c">>, <<"\\", "c", "l", "e", "a", "r">>} -> [p EXCEPT !.buffer = <<>>]
                 [] HasPrefix(in, <<Backslash, "u", " ">>) ->
                        IF TrimSpace(SubSeq(in, 4, Len(in))) /= <<>>
                          THEN switchDatabase(p, TrimSpace(SubSeq(in, 4, Len(in))), ok)
                          ELSE p
                 [] in \in {<<Backslash, "g">>, <<"\\", "g", "o">>} -> Go(p)
                 [] in \in {<<Backslash, "r">>, <<"\\", "c", "o", "n", "n", "e", "c", "t">>} -> reconnect(p, ok)
                 [] OTHER -> p
          ELSE Accumulate(p, in)

MaxLines == 3

\* a line is handed to Executor
Executor(line, ok) ==
    /\ Len(fed) < MaxLines
    /\ fed' = Append(fed, line)
    /\ LET q == ExecutorOn([buffer |-> buffer, executed |-> executed, database |-> database,
                            tables |-> tables, cacheTime |-> cacheTime], line, ok)
       IN  /\ buffer' = q.buffer
           /\ executed' = q.executed
           /\ database' = q.database
           /\ tables' = q.tables
           /\ cacheTime' = q.cacheTime
    /\ UNCHANGED <<input, cursorPos, tokens, result, typed, calls, word, candidates,
                   matches, ranked, aliasName, resolved, rerun, built,
                   now, refreshes, request, sqlStr, errText, fixSuggestion, startup, bridge, completions>>

\* the lines of a statement session
ExecLines ==
    {<<"s", "e", "l", "e", "c", "t", " ", "1", ";">>,
     <<"s", "e", "l", "e", "c", "t", " ", "2">>,
     <<"f", "r", "o", "m", " ", "t", ";">>,
     <<"s", "e", "l", "e", "c", "t", " ", "1", ";", " ", "s", "e", "l", "e", "c", "t", " ", "2", ";">>,
     <<"s", "e", "l", "e", "c", "t", " ", "3", "\\", "G">>,
     <<"d", "e", "s", "c", " ", "t", ";">>,
     <<"s", "e", "l", "e", "c", "t", " ", "4", ";", " ", "s", "e", "l", "e", "c", "t", " ", "5">>,
     <<" ", " ">>,
     <<Backslash, "c">>,
     <<Backslash, "g">>}

NextExec == \E line \in ExecLines : Executor(line, TRUE)

SpecExec == Init /\ [][NextExec]_vars

\* the lines of a session that switches databases and reconnects
SwitchLines ==
    {<<"\\", "u", " ", "s", "h", "o", "p">>,
     <<"\\", "u", " ", "c", "r", "m">>,
     <<"\\", "u", " ", "n", "o", "p", "e">>,
     <<Backslash, "r">>}

\* SHOW TABLES answers with the tables of the connection's database
CompleterInDatabase == CompleterOn({ServerTables(database)})

\* the session starts connected to a database, its snapshot just taken
InitSwitch ==
    /\ input = <<>>
    /\ cursorPos = 0
    /\ tokens = <<>>
    /\ result = NewResult
    /\ typed = 0
    /\ calls = <<>>
    /\ word = <<>>
    /\ candidates = <<>>
    /\ matches = <<>>
    /\ ranked = FALSE
    /\ aliasName = <<>>
    /\ resolved = <<>>
    /\ rerun = <<>> /\ built = <<>>
    /\ now = 0 /\ cacheTime = 0 /\ refreshes = <<0>>
    /\ request = <<>>
    /\ sqlStr = <<>> /\ errText = <<>> /\ fixSuggestion = <<>>
    /\ StartupIdle /\ BridgeIdle /\ completions = <<>>
    /\ buffer = <<>> /\ executed = <<>> /\ fed = <<>>
    /\ database \in ServerDatabases
    /\ tables = ServerTables(database)

\* the session sits idle for d seconds
Wait(d) ==
    /\ now + d <= MaxTime
    /\ now' = now + d
    /\ UNCHANGED <<input, cursorPos, tokens, result, typed, calls, word, candidates,
                   matches, ranked, aliasName, resolved, rerun, built,
                   cacheTime, tables, refreshes, request,
                   sqlStr, errText, fixSuggestion, beyond>>

\* idle times just below and just above the refresh interval
IdleTimes == {RefreshInterval - 1, RefreshInterval + 1}

NextSwitch ==
    \/ \E d \in IdleTimes : Wait(d)
    \/ CompleterInDatabase
    \/ \E line \in SwitchLines : \E ok \in BOOLEAN : Executor(line, ok)

SpecSwitch == InitSwitch /\ [][NextSwitch]_vars

\* ---- MCPStdioClient: concurrent CallTool over one pair of pipes ----

\* what a bridge step leaves alone
BridgeFrame ==
    UNCHANGED <<input, cursorPos, tokens, result, typed, calls, word, candidates,
                matches, ranked, aliasName, resolved, rerun, built,
                now, cacheTime, tables, refreshes, request,
                sqlStr, errText, fixSuggestion, startup, shell, completions>>

\* CallTool, first critical section: reqID := c.reqID; c.reqID++
TakeID(c) ==
    /\ pc[c] = "arrived"
    /\ callID' = [callID EXCEPT ![c] = reqID]
    /\ reqID' = reqID + 1
    /\ pc' = [pc EXCEPT ![c] = "numbered"]
    /\ UNCHANGED <<childStdin, childStdout, replies>>
    /\ BridgeFrame

\* CallTool, second critical section: the request line is written to stdin
WriteRequest(c) ==
    /\ pc[c] = "numbered"
    /\ childStdin' = Append(childStdin, callID[c])
    /\ pc' = [pc EXCEPT ![c] = "written"]
    /\ UNCHANGED <<reqID, callID, childStdout, replies>>
    /\ BridgeFrame

\* the server process answers the oldest request with a line carrying its id
ChildAnswer ==
    /\ childStdin /= <<>>
    /\ childStdout' = Append(childStdout, Head(childStdin))
    /\ childStdin' = Tail(childStdin)
    /\ UNCHANGED <<reqID, pc, callID, replies>>
    /\ BridgeFrame

\* CallTool, outside the lock: a new bufio.Scanner takes what the pipe holds
\* (k lines), returns the first line and is dropped with the others
ReadResponse(c) ==
    /\ pc[c] = "written"
    /\ childStdout /= <<>>
    /\ \E k \in 1..Len(childStdout) :
           childStdout' = SubSeq(childStdout, k + 1, Len(childStdout))
    /\ replies' = [replies EXCEPT ![c] = Head(childStdout)]
    /\ pc' = [pc EXCEPT ![c] = "returned"]
    /\ UNCHANGED <<reqID, callID, childStdin>>
    /\ BridgeFrame

NextBridge ==
    \/ \E c \in Callers : TakeID(c)
    \/ \E c \in Callers : WriteRequest(c)
    \/ ChildAnswer
    \/ \E c \in Callers : ReadResponse(c)

SpecBridge == Init /\ [][NextBridge]_vars

SpecRank == InitRank /\ [][NextRank]_vars

(***************************************************************************)
(* Properties of the parser, the suggestions and the ranking               *)
(***************************************************************************)
\* a call of ParseSQLContext has been made on the line
Parsed == typed > 0

\* the text up to the cursor
text == TextToCursor(input, cursorPos)

Last(seq) == seq[Len(seq)]

Upper(token) == Str(ToUpper(token))

RECURSIVE Flatten(_)
Flatten(seqs) == IF seqs = <<>> THEN <<>> ELSE Head(seqs) \o Flatten(Tail(seqs))

RECURSIVE Without(_, _)
Without(seq, drop) ==
    IF seq = <<>> THEN <<>>
    ELSE IF Head(seq) \in drop THEN Without(Tail(seq), drop)
    ELSE <<Head(seq)>> \o Without(Tail(seq), drop)

Count(seq, c) == Cardinality({i \in DOMAIN seq : seq[i] = c})

QuoteFree(t) == Range(t) \cap {SQuote, DQuote, Backtick} = {}

Blank == {" ", "\t", "\n", "\r"}

IdentChars == LowerSet \cup UpperSet \cup Digits \cup {"_"}

(***************************************************************************)
(* C1: when the text up to the cursor ends with T and a dot, T a table of  *)
(* the schema snapshot that no AS T and no identifier followed by T        *)
(* declares as an alias, the TableDot suggestions are the columns of T in  *)
(* snapshot order.                                                         *)
(***************************************************************************)
EndsWithTableDot(T) ==
    /\ HasSuffix(text, T \o Dot)
    /\ Len(text) = Len(T) + 1 \/ text[Len(text) - Len(T) - 1] \notin IdentChars

IsIdentifierToken(t) ==
    /\ t /= <<>>
    /\ Range(t) \subseteq IdentChars \cup {Backtick}
    /\ Upper(t) \notin keywords

DeclaresAlias(T) ==
    \E i \in 2..Len(tokens) :
        /\ EqualFold(tokens[i], T)
        /\ Upper(tokens[i - 1]) = "AS" \/ IsIdentifierToken(tokens[i - 1])

C1_TableDotOffersColumnsOfTable ==
    Parsed =>
        \A T \in DOMAIN p_columns :
            (EndsWithTableDot(T) /\ ~DeclaresAlias(T)) =>
                /\ result.Context = ContextTableDot
                /\ \A order \in MapOrders :
                      SuggestTexts(getColumnsForTable(result.CurrentTable, result, order))
                          = p_columns[T]

(***************************************************************************)
(* C2: every entry of result.Aliases is an identifier that directly        *)
(* follows AS or directly follows the token of the table it is bound to.   *)
(***************************************************************************)
C2_AliasOnlyAfterAsOrTable ==
    \A k \in DOMAIN result.Aliases :
        \E i \in 2..Len(tokens) :
            /\ tokens[i] = result.Aliases[k].Alias
            /\ \/ Upper(tokens[i - 1]) = "AS"
               \/ TrimBackticks(tokens[i - 1]) = result.Aliases[k].TableName

(***************************************************************************)
(* C3: ranking the candidates SELECT, SET, USER against the partial word   *)
(* se returns them in the order SELECT, SET, USER.                         *)
(***************************************************************************)
C3_DocumentedOrder ==
    (ranked /\ word = id_se /\ SuggestTexts(candidates) = <<wSELECT, wSET, wUSER>>) =>
        SuggestTexts(matches) = <<wSELECT, wSET, wUSER>>

(***************************************************************************)
(* C4: in text without strings and backticks that holds a two-character    *)
(* operator, every character is emitted once: the tokens, put together,    *)
(* are the text without its whitespace, and a>=b gives a, >=, b.           *)
(***************************************************************************)
TwoCharOperators == {<<">", "=">>, <<"<", "=">>, <<"!", "=">>, <<"<", ">">>}

HasTwoCharOperator(t) ==
    \E i \in 1..(Len(t) - 1) : <<t[i], t[i + 1]>> \in TwoCharOperators

C4_OperatorEmittedOnce ==
    (Parsed /\ QuoteFree(text) /\ HasTwoCharOperator(text)) =>
        /\ Flatten(tokens) = Without(text, Blank)
        /\ text = <<"a", ">", "=", "b">> =>
               tokens = << <<"a">>, <<">", "=">>, <<"b">> >>

(***************************************************************************)
(* C5: InParentheses is the number of ( minus the number of ) outside      *)
(* string literals in the text up to the cursor.                           *)
(***************************************************************************)
C5_ParenDepthIsBalance ==
    (Parsed /\ QuoteFree(text)) =>
        result.InParentheses = Count(text, "(") - Count(text, ")")

(***************************************************************************)
(* C6: result.Tables holds no table name twice.                            *)
(***************************************************************************)
C6_TablesNoDuplicates ==
    \A i, j \in DOMAIN result.Tables :
        i /= j => result.Tables[i] /= result.Tables[j]

(***************************************************************************)
(* C7: every element of result.Tables is a token that directly follows     *)
(* FROM, JOIN, UPDATE, INTO, TABLE, DESCRIBE, DESC or EXPLAIN, or follows  *)
(* a comma of a FROM table list.                                           *)
(***************************************************************************)
TablePositionKeywords ==
    {"FROM", "JOIN", "UPDATE", "INTO", "TABLE", "DESCRIBE", "DESC", "EXPLAIN"}

\* the comma at position j separates the tables of a FROM list
InFromList(j) ==
    \E f \in 1..(j - 1) :
        /\ Upper(tokens[f]) = "FROM"
        /\ \A m \in (f + 1)..(j - 1) :
              /\ tokens[m] \notin {LParen, RParen}
              /\ Upper(tokens[m]) \notin clauses

C7_TablesOnlyAtTablePositions ==
    \A k \in DOMAIN result.Tables :
        \E i \in 2..Len(tokens) :
            /\ TrimBackticks(tokens[i]) = result.Tables[k]
            /\ \/ Upper(tokens[i - 1]) \in TablePositionKeywords
               \/ tokens[i - 1] = Comma /\ InFromList(i - 1)

FinalDot(d) ==
    /\ d \in DOMAIN text
    /\ text[d] = "."
    /\ \A k \in (d + 1)..Len(text) : text[k] \in Blank

\* text[b..d-1] is the bare identifier before the dot at d
BareBefore(b, d) ==
    /\ b < d
    /\ \A k \in b..(d - 1) : text[k] \in IdentChars
    /\ b = 1 \/ text[b - 1] \notin IdentChars

\* text[b..d-1] is the backtick-quoted name before the dot at d
QuotedBefore(b, d) ==
    /\ b + 2 < d
    /\ text[b] = Backtick
    /\ text[d - 1] = Backtick
    /\ \A k \in (b + 1)..(d - 2) : text[k] /= Backtick

C10_TableDotAfterIdentifierDot ==
    Parsed =>
        \A d \in DOMAIN text : FinalDot(d) =>
            \A b \in 1..(d - 1) :
                /\ BareBefore(b, d) =>
                      /\ result.Context = ContextTableDot
                      /\ result.CurrentTable = SubSeq(text, b, d - 1)
                /\ QuotedBefore(b, d) =>
                      /\ result.Context = ContextTableDot
                      /\ result.CurrentTable = SubSeq(text, b + 1, d - 2)

\* a quoted name, the dot and a blank, typed after FROM
C10_Witness ==
    /\ Parsed
    /\ Len(text) > 3
    /\ Last(text) \in Blank
    /\ FinalDot(Len(text) - 1)
    /\ \E b \in DOMAIN text : QuotedBefore(b, Len(text) - 1)
    /\ result.HasFrom
    /\ result.Context = ContextTableDot

(***************************************************************************)
(* C11: the clause flags say which clause tokens the text up to the cursor *)
(* holds: HasFrom, HasWhere, HasHaving are true exactly when some token is *)
(* FROM, WHERE, HAVING in any letter case, and HasOrderBy (HasGroupBy)     *)
(* exactly when some ORDER (GROUP) token is directly followed by BY.       *)
(***************************************************************************)
HasToken(u) == \E i \in DOMAIN tokens : Upper(tokens[i]) = u

HasTokenPair(u, v) ==
    \E i \in 1..(Len(tokens) - 1) :
        Upper(tokens[i]) = u /\ Upper(tokens[i + 1]) = v

C11_ClauseFlags ==
    Parsed =>
        /\ result.HasFrom <=> HasToken("FROM")
        /\ result.HasWhere <=> HasToken("WHERE")
        /\ result.HasHaving <=> HasToken("HAVING")
        /\ result.HasOrderBy <=> HasTokenPair("ORDER", "BY")
        /\ result.HasGroupBy <=> HasTokenPair("GROUP", "BY")

\* a lower-case order by, typed after a FROM clause
C11_Witness ==
    /\ Parsed
    /\ Len(tokens) > 5
    /\ tokens[Len(tokens) - 1] = <<"o", "r", "d", "e", "r">>
    /\ Last(tokens) = <<"b", "y">>
    /\ result.HasFrom
    /\ result.HasOrderBy
    /\ ~result.HasGroupBy
    /\ ~result.HasWhere

(***************************************************************************)
(* C12: when the tokens after the one FROM of the text are a list of       *)
(* distinct non-keyword table names separated by commas, each optionally   *)
(* followed by an alias with or without AS, result.Tables is exactly those *)
(* names in the order written.                                             *)
(***************************************************************************)
RECURSIVE SplitAtCommas(_)
SplitAtCommas(toks) ==
    LET commas == {i \in DOMAIN toks : toks[i] = Comma}
    IN IF commas = {} THEN <<toks>>
       ELSE LET c == CHOOSE i \in commas : \A j \in commas : i <= j
            IN <<SubSeq(toks, 1, c - 1)>>
               \o SplitAtCommas(SubSeq(toks, c + 1, Len(toks)))

\* a table name, a table name and an alias, or a table name, AS and an alias
IsTableItem(item) ==
    /\ Len(item) \in 1..3
    /\ \A k \in DOMAIN item :
          IF Len(item) = 3 /\ k = 2 THEN Upper(item[k]) = "AS"
          ELSE IsIdentifierToken(item[k])

FromPositions == {i \in DOMAIN tokens : Upper(tokens[i]) = "FROM"}

C12_FromListTables ==
    Parsed =>
        \A f \in FromPositions :
            LET items == SplitAtCommas(SubSeq(tokens, f + 1, Len(tokens)))
                names == [k \in DOMAIN items |-> TrimBackticks(items[k][1])]
            IN (/\ FromPositions = {f}
                /\ \A k \in DOMAIN items : IsTableItem(items[k])
                /\ \A j, k \in DOMAIN items : j /= k => names[j] /= names[k])
               => result.Tables = names

(***************************************************************************)
(* C13: ResolveAlias returns the TableName of the first entry of Aliases   *)
(* whose Alias equals the name ignoring case, and the name itself when no  *)
(* entry does.                                                             *)
(***************************************************************************)
SameIgnoringCase(a, b) == ToLower(a) = ToLower(b)

C13_ResolveAliasFirstMatch ==
    resolved /= <<>> =>
        LET A == result.Aliases
        IN \/ \E k \in DOMAIN A :
                 /\ SameIgnoringCase(A[k].Alias, aliasName)
                 /\ \A j \in 1..(k - 1) : ~SameIgnoringCase(A[j].Alias, aliasName)
                 /\ resolved = A[k].TableName
           \/ /\ \A k \in DOMAIN A : ~SameIgnoringCase(A[k].Alias, aliasName)
              /\ resolved = aliasName

\* two entries match in different letter cases; the first one is returned
C13_Witness ==
    /\ Len(result.Aliases) = 2
    /\ result.Aliases[1].Alias /= aliasName
    /\ SameIgnoringCase(result.Aliases[1].Alias, aliasName)
    /\ result.Aliases[2].Alias = aliasName
    /\ result.Aliases[2].TableName /= result.Aliases[1].TableName
    /\ resolved = result.Aliases[1].TableName

(***************************************************************************)
(* C14: a closed string literal that whitespace (or an end of the text)    *)
(* precedes and follows, and that starts outside every string and backtick *)
(* span, is one token equal to the literal, whatever its content, and the  *)
(* other tokens are those of the text with a plain word in its place.      *)
(***************************************************************************)
\* text[a..b] is a closed literal: a quote, content without that quote and
\* without an escape, the same quote again
ClosedLiteral(a, b) ==
    /\ a < b
    /\ text[a] \in {SQuote, DQuote}
    /\ text[b] = text[a]
    /\ \A k \in (a + 1)..(b - 1) : text[k] \notin {text[a], Backslash}
    /\ QuoteFree(SubSeq(text, 1, a - 1))
    /\ a = 1 \/ text[a - 1] \in Blank
    /\ b = Len(text) \/ text[b + 1] \in Blank

C14_StringLiteralOneToken ==
    Parsed =>
        \A a, b \in DOMAIN text :
            ClosedLiteral(a, b) =>
                LET pre == SubSeq(text, 1, a - 1)
                    post == SubSeq(text, b + 1, Len(text))
                    k == Len(tokenizeSQL(pre)) + 1
                IN tokens = [tokenizeSQL(pre \o <<"a">> \o post)
                                EXCEPT ![k] = SubSeq(text, a, b)]

(***************************************************************************)
(* C15: outside strings and backtick spans whitespace only separates       *)
(* tokens and each of the characters , ( ) ; . is a token of its own that  *)
(* ends the token before it: in text without operator characters the       *)
(* tokens are the pieces that the whitespace and the punctuation outside   *)
(* the spans cut the text into, and the punctuation characters themselves. *)
(***************************************************************************)
Punctuation == {",", "(", ")", ";", "."}

\* the reading of the text that the property speaks of: a quote outside every
\* span opens a string that the same quote, not escaped, closes; a backtick
\* outside every span opens a span that the next backtick closes
LexInit == [i |-> 1, mode |-> "plain", cur |-> <<>>, toks |-> <<>>]

LexFlush(s) ==
    IF s.cur = <<>> THEN s ELSE [s EXCEPT !.toks = Append(@, s.cur), !.cur = <<>>]

LexStep(t, s) ==
    LET ch == t[s.i]
        kept == [s EXCEPT !.cur = Append(@, ch)]
        n == CASE s.mode = "plain" /\ ch \in {SQuote, DQuote, Backtick} ->
                      [kept EXCEPT !.mode = ch]
               [] s.mode = "plain" /\ ch \in Blank -> LexFlush(s)
               [] s.mode = "plain" /\ ch \in Punctuation ->
                      [LexFlush(s) EXCEPT !.toks = Append(@, <<ch>>)]
               [] s.mode = Backtick /\ ch = Backtick -> [kept EXCEPT !.mode = "plain"]
               [] s.mode \in {SQuote, DQuote} /\ ch = s.mode
                  /\ t[s.i - 1] /= Backslash -> [kept EXCEPT !.mode = "plain"]
               [] OTHER -> kept
    IN [n EXCEPT !.i = s.i + 1]

RECURSIVE LexLoop(_, _)
LexLoop(t, s) == IF s.i > Len(t) THEN s ELSE LexLoop(t, LexStep(t, s))

LexTokens(t) == LexFlush(LexLoop(t, LexInit)).toks

C15_SeparatorsOutsideSpans ==
    (Parsed /\ Range(text) \cap {"=", ">", "<", "!"} = {}) =>
        tokens = LexTokens(text)

\* the first min(c, length) characters of a text
Prefix(t, c) == [k \in 1..(IF c < Len(t) THEN c ELSE Len(t)) |-> t[k]]

\* C16: for every text and every cursor offset c >= 0, the result of
\* ParseSQLContext(text, c) is the result of parsing the first
\* min(c, length) characters of the text with the cursor at their end: the
\* text after the cursor does not matter and an oversized cursor is clamped
C16_OnlyTextBeforeCursor ==
    (Parsed /\ cursorPos >= 0) =>
        result = ParseSQLContext(Prefix(input, cursorPos), Len(Prefix(input, cursorPos)))

\* C16 witness: a call with the cursor inside the line, where parsing the
\* whole line would have found more tables, and the call before it with the
\* cursor beyond the end of its line
C16_Witness ==
    /\ Len(calls) >= 2
    /\ calls[Len(calls) - 1].cursorPos > Len(calls[Len(calls) - 1].line)
    /\ calls[Len(calls) - 1].result.Tables /= <<>>
    /\ 0 < cursorPos /\ cursorPos < Len(input)
    /\ result = ParseSQLContext(Prefix(input, cursorPos), cursorPos)
    /\ Len(result.Tables) < Len(ParseSQLContext(input, Len(input)).Tables)

\* C17: for empty text, and for a cursor at offset 0 of any text,
\* ParseSQLContext returns context Keyword, every flag false, parenthesis
\* depth 0, empty last keyword, partial word and current table, and no
\* tables and no aliases
C17_EmptyTextResult ==
    (Parsed /\ (input = <<>> \/ cursorPos = 0)) =>
        /\ result.Context = ContextKeyword
        /\ ~result.HasFrom /\ ~result.HasWhere /\ ~result.HasOrderBy
        /\ ~result.HasGroupBy /\ ~result.HasHaving /\ ~result.IsSubquery
        /\ ~result.AfterComma /\ ~result.ExpectingAlias
        /\ result.InParentheses = 0
        /\ result.LastKeyword = <<>>
        /\ result.PartialWord = <<>>
        /\ result.CurrentTable = <<>>
        /\ result.Tables = <<>>
        /\ result.Aliases = <<>>

\* C17 witness: the empty text was parsed with a cursor beyond its end, then
\* a line that yields a table and an alias, then a line with the cursor at 0
C17_Witness ==
    /\ Len(calls) = 3
    /\ calls[1].line = <<>> /\ calls[1].cursorPos > 0
    /\ calls[1].result.Context = ContextKeyword
    /\ calls[2].result.Tables /= <<>> /\ calls[2].result.Aliases /= <<>>
    /\ input /= <<>> /\ cursorPos = 0
    /\ result.Context = ContextKeyword /\ result.Tables = <<>>

\* a call returned a result
Returned(r) == DOMAIN r = DOMAIN NewResult

\* C18: there are no fatal conditions: for every text, however malformed,
\* and every integer cursor offset, ParseSQLContext returns a result and
\* raises no error
C18_NoFatalCondition == Parsed => Returned(result)

\* w is a subsequence of s: the characters of w occur in s in order, with
\* arbitrary gaps, letters compared without regard to case
RECURSIVE Embeds(_, _, _, _)
Embeds(w, s, k, from) ==
    IF k > Len(w) THEN TRUE
    ELSE \E i \in from..Len(s) :
            LowerCh(s[i]) = LowerCh(w[k]) /\ Embeds(w, s, k + 1, i + 1)

IsSubsequence(w, s) == Embeds(w, s, 1, 1)

\* C19: for a non-empty word findMatches keeps exactly the candidates whose
\* text holds the characters of the word in order, case-insensitively and
\* with arbitrary gaps: every such candidate occurs in the result as often
\* as in the input, and no other candidate occurs in it
C19_KeepsExactlySubsequenceMatches ==
    (ranked /\ word /= <<>>) =>
        \A x \in Range(candidates) \cup Range(matches) :
            Count(matches, x) =
                IF IsSubsequence(word, x.Text) THEN Count(candidates, x) ELSE 0

\* C19 witness: a candidate given twice is kept twice, a candidate matched
\* across a gap is kept, and a candidate without the subsequence is dropped
C19_Witness ==
    /\ ranked /\ word = <<"s", "r">>
    /\ Len(candidates) = 3 /\ Len(matches) = 2
    /\ matches[1] = matches[2]
    /\ matches[1].Text = wUSER
    /\ \E i \in DOMAIN candidates : ~IsSubsequence(word, candidates[i].Text)

\* the place where the earliest match of the word in a candidate starts
MatchStart(x) == FindStringIndex(ToUpper(word), ToUpper(x.Text))[1]

\* the score of a matching candidate
ScoreOf(x) ==
    LET match == FindStringIndex(ToUpper(word), ToUpper(x.Text))
    IN calculateMatchScore(ToLower(word), x.Text, match[1], match[2])

\* C20: the output of findMatches for a non-empty word is sorted: the score
\* of a candidate is at least the score of every candidate after it, and of
\* two candidates with the same score the one whose earliest match starts
\* further left comes first
C20_OutputSorted ==
    (ranked /\ word /= <<>>) =>
        \A i, j \in DOMAIN matches :
            i < j =>
                /\ ScoreOf(matches[i]) >= ScoreOf(matches[j])
                /\ ScoreOf(matches[i]) = ScoreOf(matches[j]) =>
                       MatchStart(matches[i]) <= MatchStart(matches[j])

\* C20 witness: three candidates given in ascending order of quality come
\* out reversed; the last two have the same score and differ in the start
\* of the match
C20_Witness ==
    /\ ranked /\ word = <<"s">>
    /\ Len(candidates) = 3 /\ Len(matches) = 3
    /\ \A i \in 1..3 : matches[i] = candidates[4 - i]
    /\ ScoreOf(matches[1]) > ScoreOf(matches[2])
    /\ ScoreOf(matches[2]) = ScoreOf(matches[3])
    /\ MatchStart(matches[2]) < MatchStart(matches[3])

\* C21: ranking is idempotent: findMatches, applied with the same word to
\* its own result, returns the same sequence element for element, also
\* when candidates tie on both the score and the start of the match
C21_RankingIdempotent == rerun /= <<>> => rerun[1] = matches

\* C21 witness: the second call was made on a list that the first call had
\* reordered and in which two different candidates have the same score and
\* the same start of the match
C21_Witness ==
    /\ rerun /= <<>> /\ word /= <<>>
    /\ Len(matches) = 3 /\ matches /= candidates
    /\ rerun[1] = matches
    /\ matches[2] /= matches[3]
    /\ ScoreOf(matches[2]) = ScoreOf(matches[3])
    /\ MatchStart(matches[2]) = MatchStart(matches[3])

\* the case bonus that the typed word earns a candidate
BonusDue(x) ==
    IF Contains(x.Text, word) THEN 100
    ELSE IF Contains(ToLower(x.Text), ToLower(word)) THEN 50
    ELSE 0

\* the case bonus that is part of the score of a matching candidate
BonusGiven(x) ==
    LET match == FindStringIndex(ToUpper(word), ToUpper(x.Text))
        prefix == IF HasPrefix(ToLower(x.Text), ToLower(word)) THEN 200 ELSE 0
    IN ScoreOf(x) - (1000 - match[1] * 10 - (match[2] - match[1]) + prefix - Len(x.Text))

\* C22: the case bonus follows the typed word: a candidate that holds the
\* word in exactly the case the user typed gets 100, a candidate that holds
\* it only when case is ignored gets 50, also for a word typed in upper case
C22_CaseBonusFollowsTypedWord ==
    (ranked /\ word /= <<>>) =>
        \A i \in DOMAIN matches : BonusGiven(matches[i]) = BonusDue(matches[i])

\* the text of a candidate starts with the word, case ignored
IsPrefixMatch(x) == HasPrefix(ToLower(x.Text), ToLower(word))

\* C23: prefix matches score highest: every candidate whose text starts with
\* the word, case ignored, is ranked before every candidate that matches the
\* word in another way, whatever the lengths of the candidates
C23_PrefixMatchesFirst ==
    (ranked /\ word /= <<>>) =>
        \A i, j \in DOMAIN matches :
            (IsPrefixMatch(matches[i]) /\ ~IsPrefixMatch(matches[j])) => i < j

\* C24: buildContextAwareSuggestions is a pure function of the parse
\* result and the schema snapshot: two calls with the same parse result and
\* the same tables, columns and databases return the same suggestions in
\* the same order
C24_SameInputsSameSuggestions ==
    \A i, j \in DOMAIN built : built[i] = built[j]

JoinedTables == Range(result.Tables) \cap DOMAIN p_columns

\* the prefixes due to a table: an alias declared for it, else its name
PrefixesDue(T) ==
    LET declared == {result.Aliases[k].Alias :
                        k \in {m \in DOMAIN result.Aliases : result.Aliases[m].TableName = T}}
    IN IF declared = {} THEN {T} ELSE declared

\* the places of the texts P.c, c a column of T, in a list of suggestions
PlacesOf(suggs, P, T, c) == {i \in DOMAIN suggs : suggs[i].Text = P \o Dot \o c}

JoinKeyName(c) == c = id_id \/ HasSuffix(c, <<"_", "i", "d">>)

\* C26: in JoinOn context, for each referenced table with columns in the
\* snapshot, every column is emitted exactly once as prefix.column, the
\* columns named id or ending in _id before all other columns of the table;
\* the prefix is the alias declared for the table, else the table name
C26_JoinColumnsOncePerTable ==
    result.Context = ContextJoinOn =>
        \A k \in DOMAIN built : \A T \in JoinedTables :
            \E P \in PrefixesDue(T) :
                /\ \A c \in Range(p_columns[T]) :
                       Cardinality(PlacesOf(built[k], P, T, c)) = 1
                /\ \A c, d \in Range(p_columns[T]) :
                       (JoinKeyName(c) /\ ~JoinKeyName(d)) =>
                           \A i \in PlacesOf(built[k], P, T, c) :
                               \A j \in PlacesOf(built[k], P, T, d) : i < j

\* the drill-down suggestions of a list: the texts that end in a dot
DrillDowns(suggs) == SelectSeq(suggs, LAMBDA x : HasSuffix(x.Text, Dot))

\* C27: in Column context with at least one referenced table there is one
\* drill-down suggestion per table reference; its text is alias. for the
\* alias declared for the reference and table. for a reference without
\* alias, so every alias that names a referenced table appears as alias.,
\* also when the same table is referenced twice under two aliases
C27_DrillDownPerReference ==
    (result.Context = ContextColumn /\ result.Tables /= <<>>) =>
        \A k \in DOMAIN built :
            LET drills == SuggestTexts(DrillDowns(built[k]))
            IN /\ Len(drills) = Len(result.Tables)
               /\ \A m \in DOMAIN result.Aliases :
                      result.Aliases[m].TableName \in Range(result.Tables) =>
                          result.Aliases[m].Alias \o Dot \in Range(drills)
               /\ \A T \in Range(result.Tables) :
                      (\A m \in DOMAIN result.Aliases : result.Aliases[m].TableName /= T) =>
                          T \o Dot \in Range(drills)

C29_EmptyCacheRefreshedAtOnce ==
    (request /= <<>> /\ request[1].empty) => request[1].refreshed

\* the keyword kw is a word of the statement: whitespace before it, and
\* whitespace or the end of the text after it
HasKeyword(sql, kw) ==
    \E k \in 1..(Len(sql) - Len(kw)) :
        /\ IsSpaceChar(sql[k])
        /\ ToUpper(SubSeq(sql, k + 1, k + Len(kw))) = kw
        /\ (k + Len(kw) = Len(sql) \/ IsSpaceChar(sql[k + Len(kw) + 1]))

\* a statement for which no correction may be offered
NoFixDue ==
    \/ ~Contains(ToUpper(errText), Error1064)
    \/ HasKeyword(sqlStr, <<"J", "O", "I", "N">>)
    \/ HasKeyword(sqlStr, <<"U", "N", "I", "O", "N">>)
    \/ Contains(sqlStr, LParen)
    \/ Contains(sqlStr, RParen)

\* C30: SuggestFixedSQL returns the empty string whenever the error text is
\* not an ERROR 1064, and whenever the statement contains a JOIN keyword, a
\* UNION keyword or a parenthesis, whatever whitespace (space, tab, newline,
\* end of text) surrounds the keyword
C30_NoFixForOtherErrorsAndJoins ==
    (fixSuggestion /= <<>> /\ NoFixDue) => fixSuggestion[1] = <<>>

\* C31: a command-line value overrides the config file only when it is
\* given: started with -P the merged port is the flag's value; started
\* without it the merged port is the port read from the config files, and
\* 3306 only when no config file sets a port
C31_ConfigPortUsedWithoutFlag ==
    mergedConfig /= <<>> =>
        mergedConfig[1].Port =
            IF args.port /= <<>> THEN args.port[1]
            ELSE IF config[1].Port /= 0 THEN config[1].Port
            ELSE 3306

\* the fields under which a section sets a key
FieldsOf(key, sectionName) ==
    IF sectionName = "mysqld" /\ key \in {"user", "port"}
      THEN {key, "default_" \o key} ELSE {key}

\* the values a file sets for a key, in the sections that are consulted
ValuesSetBy(file, login, key) ==
    IF ~file.exists \/ ~file.loads THEN {}
    ELSE {file.cfg[sec][f] :
              <<sec, f>> \in {x \in Range(SectionsOf(login)) \X {key, "default_" \o key} :
                                 /\ x[1] \in DOMAIN file.cfg
                                 /\ x[2] \in FieldsOf(key, x[1])
                                 /\ x[2] \in DOMAIN file.cfg[x[1]]}}

\* the ports a file sets, as numbers
PortsSetBy(file, login) ==
    {Atoi(v).n : v \in {x \in ValuesSetBy(file, login, "port") : ~Atoi(x).err}}

\* the places, in reading order, of the files that set a key
SettersOf(key) ==
    LET paths == ConfigFilePaths(args.config)
    IN  {k \in DOMAIN paths :
            IF key = "port" THEN PortsSetBy(configFiles[paths[k]], loginPath) /= {}
            ELSE ValuesSetBy(configFiles[paths[k]], loginPath, key) /= {}}

LastSetter(key) ==
    configFiles[ConfigFilePaths(args.config)[
        CHOOSE k \in SettersOf(key) : \A m \in SettersOf(key) : m <= k]]

\* C32: when a key is set in several config files, the returned
\* configuration holds the value of the file read last, the --config file
\* after ~/.my.cnf after the files under /etc
C32_LastFileWins ==
    config /= <<>> =>
        /\ SettersOf("user") /= {} =>
               config[1].User \in ValuesSetBy(LastSetter("user"), loginPath, "user")
        /\ SettersOf("password") /= {} =>
               config[1].Password \in ValuesSetBy(LastSetter("password"), loginPath, "password")
        /\ SettersOf("host") /= {} =>
               config[1].Host \in ValuesSetBy(LastSetter("host"), loginPath, "host")
        /\ SettersOf("port") /= {} =>
               config[1].Port \in PortsSetBy(LastSetter("port"), loginPath)
        /\ SettersOf("database") /= {} =>
               config[1].Database \in ValuesSetBy(LastSetter("database"), loginPath, "database")

\* the trimmed value without its pair of quotes, if it has one
Unquoted(s) ==
    LET t == TrimSpace(s)
    IN  IF Len(t) >= 2 /\ t[1] = t[Len(t)] /\ t[1] \in {"'", "\""}
          THEN SubSeq(t, 2, Len(t) - 1) ELSE t

\* C37: StripMatchingQuotes returns, for every string, the trimmed string
\* with one pair of matching surrounding quotes removed, and the trimmed
\* string itself otherwise, also for strings of length 0 or 1
C37_StripMatchingQuotesTotal ==
    stripped /= <<>> =>
        /\ "returned" \in DOMAIN stripped[1]
        /\ stripped[1].returned = Unquoted(rawValue)

\* the accumulated input: the lines handed to Executor, one per line
RECURSIVE Accumulated(_)
Accumulated(lines) ==
    IF lines = <<>> THEN <<>>
    ELSE Accumulated(SubSeq(lines, 1, Len(lines) - 1)) \o TrimSpace(lines[Len(lines)]) \o <<"\n">>

\* the offset of the first terminator of a text, and the terminator's length
FirstTerminator(txt) ==
    LET semi == Index(txt, Semicolon)
        vert == Index(txt, VerticalEnd)
    IN  IF semi >= 0 /\ (vert < 0 \/ semi < vert) THEN [at |-> semi, len |-> 1]
        ELSE [at |-> vert, len |-> 2]

\* the statements of a txt that end with a terminator, in input order
RECURSIVE TerminatedStatements(_)
TerminatedStatements(txt) ==
    LET t == FirstTerminator(txt)
        sql == TrimSpace(SubSeq(txt, 1, t.at))
    IN  IF t.at < 0 THEN <<>>
        ELSE (IF sql = <<>> THEN <<>> ELSE <<sql>>)
                 \o TerminatedStatements(SubSeq(txt, t.at + t.len + 1, Len(txt)))

\* only statement txt was typed: no backslash command
OnlyStatements == \A k \in DOMAIN fed : ~HasPrefix(TrimSpace(fed[k]), <<Backslash>>)

\* C33: after Executor returns from any input line, every statement of the
\* accumulated input that ends with ; or \G has been executed, on its own
\* and in input order, and the buffer holds only txt without a terminator,
\* also when one line carries two or more statements
C33_TerminatedStatementsExecuted ==
    OnlyStatements =>
        /\ [k \in DOMAIN executed |-> executed[k].sql] = TerminatedStatements(Accumulated(fed))
        /\ ~Contains(buffer, Semicolon)
        /\ ~Contains(buffer, VerticalEnd)

\* C34: afterComma means that a comma was just typed: it is true only if the
\* last token before the cursor is a comma, and false once another token
\* follows the most recent comma
C34_AfterCommaOnlyJustAfterComma ==
    result.AfterComma => (tokens /= <<>> /\ Last(tokens) = Comma)

\* the text ends with an identifier, a dot, and at most a partial identifier
\* attached to the dot
EndsJustAfterDot(txt) ==
    \E k \in 2..Len(txt) :
        /\ txt[k] = "."
        /\ txt[k - 1] \in RegexWord \cup {Backtick}
        /\ \A j \in (k + 1)..Len(txt) : txt[j] \in RegexWord

\* C35: the context is TableDot only just after ident.: the text up to the
\* cursor ends with an identifier, a dot and at most a partial identifier
\* attached to the dot; once ident.column is followed by whitespace or by
\* another token the context is no longer TableDot
C35_TableDotOnlyJustAfterDot ==
    result.Context = ContextTableDot => EndsJustAfterDot(TextToCursor(input, cursorPos))

\* the place of the dot when the text ends with a backtick-quoted name, a
\* dot and at most a partial column name; 0 otherwise
QuotedDotAt(txt) ==
    LET at == {k \in 4..Len(txt) :
                  /\ txt[k] = "."
                  /\ txt[k - 1] = Backtick
                  /\ txt[k - 2] /= Backtick
                  /\ \E j \in 1..(k - 3) : txt[j] = Backtick
                  /\ \A j \in (k + 1)..Len(txt) : txt[j] \in RegexWord}
    IN  IF at = {} THEN 0 ELSE CHOOSE k \in at : TRUE

\* the quoted name before the dot at k, without its backticks
QuotedNameBefore(txt, k) ==
    LET open == CHOOSE j \in 1..(k - 3) :
                    txt[j] = Backtick /\ \A m \in (j + 1)..(k - 2) : txt[m] /= Backtick
    IN  SubSeq(txt, open + 1, k - 2)

\* C38: a backtick-quoted identifier before a dot gives the same
\* currentTable whether or not a column prefix has been typed: the context
\* is TableDot and currentTable is the name without its backticks
C38_QuotedNameBeforeDot ==
    QuotedDotAt(TextToCursor(input, cursorPos)) /= 0 =>
        /\ result.Context = ContextTableDot
        /\ result.CurrentTable =
               QuotedNameBefore(TextToCursor(input, cursorPos),
                                QuotedDotAt(TextToCursor(input, cursorPos)))

\* the trimmed line ends with a trigger keyword, as its first word or after
\* whitespace
EndsWithTrigger(line) ==
    LET t == ToUpper(TrimSpace(line))
    IN  \E kw \in TriggerKeywords :
            /\ HasSuffix(t, kw)
            /\ (Len(t) = Len(kw) \/ IsSpaceChar(t[Len(t) - Len(kw)]))

\* C36: with an empty word before the cursor Completer returns the context
\* suggestions whenever the trimmed line ends with a trigger keyword, also
\* when the keyword is the first word of the line
C36_TriggerKeywordShowsSuggestions ==
    (/\ completions /= <<>>
     /\ WordBeforeCursor(input, cursorPos) = <<>>
     /\ EndsWithTrigger(input)) =>
        \E order \in MapOrders :
            completions[1] = buildContextAwareSuggestions(ParseSQLContext(input, cursorPos), order)

\* the database a line of the form \u <db> names; empty for any other line
SwitchTarget(line) ==
    IF HasPrefix(TrimSpace(line), <<Backslash, "u", " ">>)
      THEN TrimSpace(SubSeq(TrimSpace(line), 4, Len(TrimSpace(line)))) ELSE <<>>

\* C39: after a successful switch with \u <db>, the next completion request
\* offers the tables of the new database, never the snapshot of the
\* previous one
C39_SnapshotFollowsSwitch ==
    (/\ request /= <<>>
     /\ request[1].after /= <<>>
     /\ SwitchTarget(Last(request[1].after)) = request[1].db) =>
        request[1].offered = ServerTables(request[1].db)

\* C40: when several callers run CallTool at once, each caller that returns
\* has received the response carrying its own request id
C40_OwnResponse ==
    \A c \in Callers : pc[c] = "returned" => replies[c] = callID[c]

====
